---- MODULE Spec2Model ----
(***************************************************************************)
(* Model of kaya: the authenticated POST helper with its token refresh     *)
(* (data_puller.kaya_api_post / update_tokens) and the paginated sync      *)
(* engine (data_puller.update_gym_data).                                   *)
(*                                                                         *)
(* SpecPost checks one logical kaya_api_post call, with the Python call    *)
(* stack kaya_api_post -> update_tokens -> kaya_api_post -> ... explicit   *)
(* and the secrets backend of secrets.py underneath: Secrets Manager, or   *)
(* the .env file as write_secrets rewrites it and python-dotenv reads it.  *)
(* Spec checks one update_gym_data call against a paged upstream.          *)
(***************************************************************************)
EXTENDS Integers, Sequences, FiniteSets, TLC

VARIABLES
    \* ---- kaya_api_post / update_tokens ----
    stack,      \* Python call stack, innermost frame last
    ret,        \* value or exception travelling to the frame on top of the stack
    environ,    \* os.environ: [access, refresh]
    persisted,  \* the pair the secrets backend gives: the secret of Secrets Manager,
                \* or what python-dotenv reads in the .env file
    is_aws_lambda, \* is_aws_lambda() in this process: Secrets Manager, or the .env file
    headers,    \* HEADERS['authorization'] (module-level dict), as a token
    issued,     \* number of tokens the refresh endpoint has issued so far
    log,        \* history: every request sent, in order
    n_update,   \* history: number of update_tokens() invocations
    max_retries_arg, \* the max_retries argument of the logical call
    other,      \* a second kaya_api_post call of the process that is not running now
    \* ---- update_gym_data ----
    pc,             \* position in update_gym_data
    pages,          \* the upstream: pages[i] is served for offset 15*(i-1)
    store,          \* send_ids in table 'sends' for this gym
    table_exists,   \* whether the database has a table 'sends'
    store0,         \* history: the table when update_gym_data was called
    mode,           \* 'full' | 'incremental'
    batch_size,
    start_offset,
    offset,
    df,             \* the page being processed (after filtering, once filtered)
    all_data,       \* list of pending DataFrames, each a sequence of send_ids
    seen_send_ids,
    total_written,
    result,         \* return value of update_gym_data
    last_exc,       \* exception caught by the fetch retry at this offset, if any
    fetched,        \* history: [offset, n] of every page fetched successfully
    flushes,        \* history: every batch handed to write_dataframe, in order
    flush_at,       \* history: for each flush, "loop" or "final"
    run,            \* 1 for the first run of a sync, 2 for the re-run after an interruption
    \* ---- update_all_gyms ----
    jpc,            \* position in update_all_gyms
    gyms,           \* the configuration, in order: each gym's upstream and table rows
    gym_i,          \* index of the gym the loop is at (0 before the first)
    results,        \* the results dict, keyed by the gym's index
    \* ---- table 'sends' with its columns ----
    sends,          \* rows of table 'sends', in insertion order
    last_write,     \* history: for each send_id the latest record upserted, and the calls made
    \* ---- the local .env file ----
    env_file,       \* the lines of the file, as readlines() returns them
    env_saved       \* write_secrets: its position, its arguments, the lines it read;
                    \* load_secrets of another thread: the assignments it has still to make

cvars == <<stack, ret, environ, persisted, is_aws_lambda, headers, issued, log, n_update,
           max_retries_arg>>
svars == <<pc, pages, store, table_exists, store0, mode, batch_size, start_offset, offset, df,
           all_data, seen_send_ids, total_written, result, last_exc, fetched, flushes, flush_at>>
jvars == <<jpc, gyms, gym_i, results>>
tvars == <<sends, last_write>>
fvars == <<env_file, env_saved>>
xvars == <<run, jvars, tvars, fvars, other>>
\* what a step of the client that writes the .env file leaves alone
wvars == <<svars, run, jvars, tvars, env_saved, other>>
vars == <<cvars, svars, xvars>>

(***************************************************************************)
(* Bounds                                                                  *)
(***************************************************************************)
MaxRetries == 2     \* max_retries of the logical call ranges over 0..MaxRetries
MaxSwitches == 2    \* times the processor passes between two interleaved calls
MaxRaceSends == 4   \* requests two interleaved calls send between them
MaxRaceDepth == 1   \* update_tokens frames nested on the stack of an interleaved call
MaxDepth == 2       \* update_tokens frames that may be nested on the stack
MaxPages == 3       \* pages the upstream holds
MaxRecords == 31    \* records the API holds for the gym, newest first
MaxLines == 2       \* lines of the .env file before the first write_secrets
MaxSaves == 2       \* write_secrets calls
MaxGyms == 3         \* gyms in gyms_to_update.json
MaxKey == 2         \* send_ids of the rows upserted range over 1..MaxKey
MaxBatchRows == 2   \* records in one DataFrame handed to write_dataframe
MaxWrites == 3      \* write_dataframe calls

(***************************************************************************)
(* The .env file, as write_secrets rewrites it and python-dotenv reads it  *)
(***************************************************************************)
\* A line is its text, a sequence of atoms no prefix test cuts through, and
\* whether it ends with a newline; only the last line of a file may lack one.
Line(text, nl) == [text |-> text, nl |-> nl]

ACCESS == "KAYA_API_TOKEN"
REFRESH_VAR == "KAYA_REFRESH_TOKEN"

\* str.strip() as far as the prefix test sees it: leading whitespace removed.
RECURSIVE strip(_)
strip(text) ==
    IF text # <<>> /\ Head(text) = " " THEN strip(Tail(text)) ELSE text

\* line.strip().startswith(f'{var}=')
StartsWithVar(line, var) ==
    LET t == strip(line.text)
    IN Len(t) >= 2 /\ t[1] = var /\ t[2] = "="

\* f'{var}={value}\n'
VarLine(var, value) == Line(<<var, "=", value>>, TRUE)

\* Lines 93-104
update_env_var(lines, var, value) ==
    LET replaced == [i \in 1..Len(lines) |->
                        IF StartsWithVar(lines[i], var) THEN VarLine(var, value)
                                                        ELSE lines[i]]
        found == \E i \in 1..Len(lines) : StartsWithVar(lines[i], var)
    IN IF found THEN replaced ELSE Append(replaced, VarLine(var, value))

\* f.writelines(lines) followed by a later f.readlines(): the strings are written
\* one after the other, and the file is split again at its newlines.
RECURSIVE writelines(_)
writelines(lines) ==
    IF Len(lines) <= 1
      THEN lines
      ELSE IF lines[1].nl
             THEN <<lines[1]>> \o writelines(Tail(lines))
             ELSE writelines(<<Line(lines[1].text \o lines[2].text, lines[2].nl)>>
                             \o Tail(Tail(lines)))

\* Lines 89-114: the file after write_secrets(new_access_token, new_refresh_token).
write_env(lines, new_access_token, new_refresh_token) ==
    writelines(update_env_var(update_env_var(lines, ACCESS, new_access_token),
                              REFRESH_VAR, new_refresh_token))

\* What a write that stopped within a line left of its text: the text up to
\* the end of one of its atoms, or up to the middle of one; no newline follows.
\* The beginning of an atom is a text of its own, which "cut" stands for,
\* unless it is itself a name the file is read for: KAYA_API_TOKEN_OLD cut
\* after its first 14 characters is KAYA_API_TOKEN. The atoms of one character
\* have no middle.
LineCuts(text) ==
    LET Beginnings(atom) ==
            IF atom \in {"=", " ", "#", "x"} THEN {}
            ELSE IF atom = "KAYA_API_TOKEN_OLD" THEN {"cut", ACCESS}
            ELSE {"cut"}
    IN {SubSeq(text, 1, j) : j \in 1..Len(text)}
         \cup UNION {{Append(SubSeq(text, 1, j - 1), b) : b \in Beginnings(text[j])} :
                        j \in 1..Len(text)}

\* What f.writelines(lines) may have put in the file when the write, or the
\* flush at the close, raised: any beginning of the characters it had to write,
\* ending after a line or within one.
FilePrefixes(lines) ==
    {SubSeq(lines, 1, k) : k \in 0..Len(lines)}
      \cup UNION {{Append(SubSeq(lines, 1, k - 1), Line(c, FALSE)) :
                       c \in LineCuts(lines[k].text)} : k \in 1..Len(lines)}

\* os.getenv(var) of a variable the process does not have, and the value
\* python-dotenv gives a key that stands on its line without "=".
Unset == "None"

\* One line as python-dotenv parses it: leading whitespace and a leading
\* `export ` are skipped, a line starting with # is a comment; then comes the
\* key, and after "=", with whitespace allowed around it, the value: the rest of
\* the line. A value of several atoms is the text of a line glued to the one
\* before it; a key with nothing after it has no value. A line that gives no
\* key has the key "".
parse_binding(line) ==
    LET Binding(key, value) == [key |-> key, value |-> value]
        t == strip(line.text)
        u == IF Len(t) >= 2 /\ t[1] = "export" /\ t[2] = " " THEN strip(Tail(t)) ELSE t
        rest == IF u = <<>> THEN <<>> ELSE strip(Tail(u))
        v == IF rest = <<>> THEN <<>> ELSE strip(Tail(rest))
    IN IF u = <<>> \/ Head(u) = "#" THEN Binding("", Unset)
       ELSE IF rest = <<>> THEN Binding(Head(u), Unset)
       ELSE IF Head(rest) # "=" THEN Binding("", Unset)
       ELSE Binding(Head(u), IF v = <<>> THEN ""
                             ELSE IF Len(v) = 1 THEN v[1] ELSE "glued")

\* The line gives `var` a value, or stands for `var` without one.
Binds(line, var) == parse_binding(line).key = var

\* dotenv_values()[var]: the last line of `var` decides; Unset when the file
\* has none, or when that line has the key alone.
RECURSIVE dotenv_get(_, _)
dotenv_get(lines, var) ==
    IF lines = <<>>
      THEN Unset
      ELSE LET last == lines[Len(lines)]
           IN IF Binds(last, var)
                THEN parse_binding(last).value
                ELSE dotenv_get(SubSeq(lines, 1, Len(lines) - 1), var)

dotenv_values(lines) ==
    [access |-> dotenv_get(lines, ACCESS), refresh |-> dotenv_get(lines, REFRESH_VAR)]

\* load_dotenv(override=True): a variable the file gives a value takes it, any
\* other keeps the value the process has.
load_dotenv(lines, current) ==
    LET file == dotenv_values(lines)
    IN [access  |-> IF file.access = Unset THEN current.access ELSE file.access,
        refresh |-> IF file.refresh = Unset THEN current.refresh ELSE file.refresh]

\* The first line of the file that has the key `var`, 0 when none has.
FirstLineOf(lines, var) ==
    IF \E i \in 1..Len(lines) : Binds(lines[i], var)
      THEN CHOOSE i \in 1..Len(lines) :
              /\ Binds(lines[i], var)
              /\ \A j \in 1..(i - 1) : ~Binds(lines[j], var)
      ELSE 0

\* The assignments load_dotenv(override=True) makes to the two tokens, in
\* order: a variable is assigned once, with its last value, variables in the
\* order of their first lines; a variable whose last value is None is skipped.
dotenv_items(lines) ==
    LET a == FirstLineOf(lines, ACCESS)
        r == FirstLineOf(lines, REFRESH_VAR)
        access_item == [var |-> "access", value |-> dotenv_get(lines, ACCESS)]
        refresh_item == [var |-> "refresh", value |-> dotenv_get(lines, REFRESH_VAR)]
        ordered == IF a = 0 /\ r = 0 THEN <<>>
                   ELSE IF r = 0 THEN <<access_item>>
                   ELSE IF a = 0 THEN <<refresh_item>>
                   ELSE IF a < r THEN <<access_item, refresh_item>>
                   ELSE <<refresh_item, access_item>>
    IN SelectSeq(ordered, LAMBDA item : item.value # Unset)

(***************************************************************************)
(* kaya_api_post / update_tokens                                           *)
(***************************************************************************)
GRAPHQL == "graphql"
REFRESH == "refresh-token"

\* os.getenv(...) of a variable that is not set, a key the backend does not
\* hold: None.
NoToken == -1

NoTokens == [access |-> NoToken, refresh |-> NoToken]

\* A value of os.environ or of the .env file that is no token the refresh
\* endpoint issued: the text of a glued line, of a line cut short, nothing.
Garbled == -2

\* Tokens are numbered: 0 is the token the process starts with, k the k-th the
\* refresh endpoint issues. f'{value}' of a token, as line 101 / 104 writes it.
TokenText(token) == IF token = NoToken THEN Unset ELSE ToString(token)

\* The token a value read from the .env file is.
TextToken(text) ==
    IF text = Unset THEN NoToken
    ELSE IF \E i \in 0..issued : ToString(i) = text
      THEN CHOOSE i \in 0..issued : ToString(i) = text
      ELSE Garbled

\* The pair python-dotenv reads in the file.
FilePair(lines) ==
    [access |-> TextToken(dotenv_get(lines, ACCESS)),
     refresh |-> TextToken(dotenv_get(lines, REFRESH_VAR))]

\* Status of a request that has left and is not answered yet.
InFlight == -1

\* A response whose body resp.json() cannot decode (line 58).
NotJson == -3

NoRet == [kind |-> "none", exc |-> "none", token |-> 0, refresh_token |-> 0]
Return(tok, rtok) == [kind |-> "return", exc |-> "none", token |-> tok, refresh_token |-> rtok]
Raise(e) == [kind |-> "raise", exc |-> e, token |-> 0, refresh_token |-> 0]

\* json_data of the GraphQL request.
QueryJson == <<"query">>

\* A kaya_api_post activation. `attempt` is the loop variable of line 95, `json`
\* the body, `tok` the token read from os.environ on its way to HEADERS, `idx`
\* the place in the log of the request in flight. `at` is the statement it
\* stands at:
\*   "enter"    line 93, os.getenv("KAYA_API_TOKEN") not yet read
\*   "header"   line 94, HEADERS['authorization'] not yet assigned
\*   "send"     line 97, requests.post not yet called
\*   "wait"     line 97, the request has left with the header of that moment
\*   "try"      line 107, inside update_tokens()
\*   "handler"  line 120, inside update_tokens()
\*   "reheader" lines 109 / 121, os.getenv read, HEADERS not yet assigned
PostFrame(url, max_retries) ==
    [fn |-> "kaya_api_post", url |-> url, max_retries |-> max_retries,
     attempt |-> 0, at |-> "enter", json |-> QueryJson, tok |-> 0, idx |-> 0]

\* An update_tokens activation, with the locals of load_secrets and
\* write_secrets it calls: `todo` the assignments load_secrets has still to
\* make, in order, `new` the pair of lines 59-63, `lines` the local of that
\* name in write_secrets. `at` is the statement it stands at:
\*   "load"       secrets.py 47-50 / 54, the backend not yet read
\*   "assign"     secrets.py 51-52 / 54, os.environ not yet assigned for `todo`
\*   "json"       line 51, os.getenv("KAYA_REFRESH_TOKEN") not yet read
\*   "post"       line 52, inside kaya_api_post
\*   "write1"     secrets.py 73
\*   "write2"     secrets.py 74
\*   "backend"    secrets.py 84-87 / 106-108, the backend not yet touched
\*   "open"       secrets.py 113, the lines read and updated, the file not yet
\*                opened for writing
\*   "writelines" secrets.py 114, the file opened for writing and empty
UpdateTokensFrame ==
    [fn |-> "update_tokens", url |-> REFRESH, max_retries |-> 0,
     attempt |-> 0, at |-> "load", todo |-> <<>>, new |-> NoTokens, lines |-> <<>>]

Top == stack[Len(stack)]
Pop == SubSeq(stack, 1, Len(stack) - 1)
ReplaceTop(f) == [stack EXCEPT ![Len(stack)] = f]

\* Which of the process's kaya_api_post calls is running: the first, or the
\* second after an odd number of switches.
Running == IF other.switches % 2 = 0 THEN 1 ELSE 2

\* The process has, or had, a second kaya_api_post call under way.
Interleaved == other.stack # <<>> \/ other.switches > 0

\* The cap on nested update_tokens activations: that of a call running alone,
\* that of a call running next to another.
DepthBound == IF Interleaved THEN MaxRaceDepth ELSE MaxDepth

\* Number of update_tokens activations currently on the stack.
Depth == Cardinality({i \in 1..Len(stack) : stack[i].fn = "update_tokens"})

\* load_secrets(): the assignments to os.environ it makes once the backend is
\* read, in order. Secrets Manager (secrets.py 50-52): the two keys of the
\* secret, NoToken for a key the secret has not. The .env file (54): what
\* load_dotenv(override=True) assigns, in the order of the file.
load_secrets ==
    IF is_aws_lambda
      THEN <<[var |-> "access", value |-> persisted.access],
             [var |-> "refresh", value |-> persisted.refresh]>>
      ELSE LET items == dotenv_items(env_file)
           IN [i \in 1..Len(items) |->
                  [var |-> items[i].var, value |-> TextToken(items[i].value)]]

\* Mutant: the loop makes one iteration too many.
HasNextAttempt_OneMore(f) == f.attempt <= f.max_retries

\* `for attempt in range(max_retries + 1)` has another iteration after `f.attempt`.
HasNextAttempt(f) == f.attempt + 1 <= f.max_retries

\* Mutant: the handler retries whatever the status of the response.
HandlerRetries_AnyStatus(f, status) == f.attempt < f.max_retries

\* The guard of the refresh in the `except requests.HTTPError` handler, line 116,
\* for a frame whose `response` has this status.
HandlerRetries(f, status) == status = 401 /\ f.attempt < f.max_retries

\* Mutant: the header keeps the token read at line 93.
HeaderAfterRefresh_Stale == headers

\* The token read for the Authorization header after update_tokens() returned,
\* lines 110, 122.
HeaderAfterRefresh == environ.access

\* max_retries passed by update_tokens to kaya_api_post, line 55.
RefreshMaxRetries == 0

\* Line 51: json_data = {'refresh_token': os.getenv("KAYA_REFRESH_TOKEN")}
RefreshJson == <<"refresh_token", environ.refresh>>

\* The request as requests.post sends it, lines 97-102: HEADERS as it is then.
Sent ==
    [url |-> Top.url, auth |-> headers, status |-> InFlight,
     level |-> Depth, attempt |-> Top.attempt, json |-> Top.json,
     call |-> Running]

\* The log once the request in flight of the frame on top is answered.
Answered(status) == [log EXCEPT ![Top.idx].status = status]

\* Mutant: a call refused while the other call is inside update_tokens waits
\* for it and takes the tokens it left, without an update_tokens of its own.
CallUpdateTokens_Exclusive(at) ==
    IF \E i \in 1..Len(other.stack) : other.stack[i].fn = "update_tokens"
      THEN /\ stack' = ReplaceTop([Top EXCEPT !.at = at])
           /\ ret' = Return(environ.access, environ.refresh)
           /\ UNCHANGED <<environ, persisted, is_aws_lambda, headers, issued, n_update,
                          max_retries_arg>>
      ELSE /\ Depth < DepthBound
           /\ stack' = Append(ReplaceTop([Top EXCEPT !.at = at]), UpdateTokensFrame)
           /\ n_update' = n_update + 1
           /\ ret' = NoRet
           /\ UNCHANGED <<environ, persisted, is_aws_lambda, headers, issued,
                          max_retries_arg>>

\* update_tokens() is called (line 107 or 120) from the frame on top of the
\* stack, which moves to `at`.
CallUpdateTokens(at) ==
    /\ Depth < DepthBound
    /\ stack' = Append(ReplaceTop([Top EXCEPT !.at = at]), UpdateTokensFrame)
    /\ n_update' = n_update + 1
    /\ ret' = NoRet
    /\ UNCHANGED <<environ, persisted, is_aws_lambda, headers, issued, max_retries_arg>>

\* `except requests.HTTPError` of the frame on top of the stack, lines 115-127,
\* with `status` the status code of its `response`: refresh and retry, or re-raise.
HandleHTTPError(status) ==
    IF HandlerRetries(Top, status)
      THEN CallUpdateTokens("handler")
      ELSE /\ stack' = Pop
           /\ ret' = Raise("HTTPError")
           /\ UNCHANGED <<environ, persisted, is_aws_lambda, headers, issued, n_update,
                          max_retries_arg>>

\* Lines 109-112 / 121-124: HEADERS gets the token read, then `continue`: next
\* iteration, or fall out of the loop to the
\* `raise Exception("Failed POST request after token refresh attempts.")`, line 131.
Continue ==
    /\ headers' = Top.tok
    /\ IF HasNextAttempt(Top)
         THEN /\ stack' = ReplaceTop([Top EXCEPT !.attempt = @ + 1, !.at = "send"])
              /\ ret' = NoRet
         ELSE /\ stack' = Pop
              /\ ret' = Raise("Exception")
    /\ UNCHANGED <<environ, persisted, is_aws_lambda, issued, n_update, max_retries_arg>>

\* The frame on top of the stack is a kaya_api_post standing at `at`.
PostAt(at) ==
    /\ Len(stack) > 0
    /\ Top.fn = "kaya_api_post"
    /\ Top.at = at
    /\ ret.kind = "none"

\* The frame on top of the stack is an update_tokens standing at `at`.
UpdateTokensAt(at) ==
    /\ Len(stack) > 0
    /\ Top.fn = "update_tokens"
    /\ Top.at = at

Sending == PostAt("send")

Waiting == PostAt("wait")

\* Line 93: KAYA_API_TOKEN = os.getenv("KAYA_API_TOKEN")
PostReadToken ==
    /\ PostAt("enter")
    /\ stack' = ReplaceTop([Top EXCEPT !.tok = environ.access, !.at = "header"])
    /\ UNCHANGED <<ret, environ, persisted, is_aws_lambda, headers, issued, log, n_update,
                   max_retries_arg>>
    /\ UNCHANGED <<svars, xvars>>

\* Line 94: HEADERS['authorization'] = f'Bearer {KAYA_API_TOKEN}'
PostSetHeader ==
    /\ PostAt("header")
    /\ headers' = Top.tok
    /\ stack' = ReplaceTop([Top EXCEPT !.at = "send"])
    /\ UNCHANGED <<ret, environ, persisted, is_aws_lambda, issued, log, n_update,
                   max_retries_arg>>
    /\ UNCHANGED <<svars, xvars>>

\* Lines 97-102: requests.post sends the request and waits for the answer.
PostSend ==
    /\ Sending
    /\ Interleaved => Len(log) < MaxRaceSends
    /\ log' = Append(log, Sent)
    /\ stack' = ReplaceTop([Top EXCEPT !.at = "wait", !.idx = Len(log) + 1])
    /\ UNCHANGED <<ret, environ, persisted, is_aws_lambda, headers, issued, n_update,
                   max_retries_arg>>
    /\ UNCHANGED <<svars, xvars>>

\* requests.post answers 2xx: raise_for_status passes, `return response` (line 114).
\* The body of the refresh endpoint is whatever the server sent: JSON with or
\* without "token" (NoToken: tokens.get('token') is None), with "refresh_token"
\* absent (0), rotated or null (NoToken), or no JSON at all. The tokens the body
\* carries are new ones.
SendOk ==
    /\ Waiting
    /\ log' = Answered(200)
    /\ stack' = Pop
    /\ IF Top.url = REFRESH
         THEN \/ \E token \in {issued + 1, NoToken} :
                 \E refresh_token \in {0, issued + 1, NoToken} :
                    /\ ret' = Return(token, refresh_token)
                    /\ issued' = IF issued + 1 \in {token, refresh_token}
                                   THEN issued + 1 ELSE issued
              \/ /\ ret' = Return(NotJson, NotJson)
                 /\ issued' = issued
         ELSE /\ issued' = issued
              /\ ret' = Return(0, 0)
    /\ UNCHANGED <<environ, persisted, is_aws_lambda, headers, n_update, max_retries_arg>>
    /\ UNCHANGED <<svars, xvars>>

\* requests.post answers 401: lines 103-107, update_tokens() is called whatever
\* `attempt` is.
SendUnauthorized ==
    /\ Waiting
    /\ log' = Answered(401)
    /\ CallUpdateTokens("try")
    /\ UNCHANGED <<svars, xvars>>

\* requests.post answers another 4xx/5xx: raise_for_status raises HTTPError (line
\* 113), the handler of line 115 sees a status other than 401 and re-raises.
SendHttpError ==
    /\ Waiting
    /\ log' = Answered(500)
    /\ HandleHTTPError(500)
    /\ UNCHANGED <<svars, xvars>>

\* requests.post raises (connection reset, timeout): handler of line 128 re-raises.
SendTransportError ==
    /\ Waiting
    /\ log' = Answered(0)
    /\ stack' = Pop
    /\ ret' = Raise("ConnectionError")
    /\ UNCHANGED <<environ, persisted, is_aws_lambda, headers, issued, n_update, max_retries_arg>>
    /\ UNCHANGED <<svars, xvars>>

\* load_secrets, secrets.py 47-50 / 54: the backend is read.
LoadSecretsRead ==
    /\ UpdateTokensAt("load")
    /\ stack' = ReplaceTop([Top EXCEPT !.todo = load_secrets,
                                       !.at = IF load_secrets = <<>> THEN "json"
                                                                     ELSE "assign"])
    /\ UNCHANGED <<ret, environ, persisted, is_aws_lambda, headers, issued, log, n_update,
                   max_retries_arg>>
    /\ UNCHANGED <<svars, xvars>>

\* load_secrets, secrets.py 47-49 / 54: get_secret_value raises, or load_dotenv
\* cannot open or decode the .env file; nothing between there and the caller of
\* kaya_api_post catches it.
LoadSecretsFails ==
    /\ UpdateTokensAt("load")
    /\ stack' = Pop
    /\ ret' = Raise(IF is_aws_lambda THEN "ClientError" ELSE "OSError")
    /\ UNCHANGED <<environ, persisted, is_aws_lambda, headers, issued, log, n_update,
                   max_retries_arg>>
    /\ UNCHANGED <<svars, xvars>>

\* One assignment of load_secrets: os.environ[var] = secrets[var], a KeyError
\* when the secret of Secrets Manager has no such key.
LoadAssign(var) ==
    /\ UpdateTokensAt("assign")
    /\ Head(Top.todo).var = var
    /\ IF Head(Top.todo).value = NoToken
         THEN /\ stack' = Pop
              /\ ret' = Raise("KeyError")
              /\ UNCHANGED environ
         ELSE /\ environ' = [environ EXCEPT ![var] = Head(Top.todo).value]
              /\ stack' = ReplaceTop([Top EXCEPT
                              !.todo = Tail(@),
                              !.at = IF Tail(Top.todo) = <<>> THEN "json" ELSE "assign"])
              /\ UNCHANGED ret
    /\ UNCHANGED <<persisted, is_aws_lambda, headers, issued, log, n_update, max_retries_arg>>
    /\ UNCHANGED <<svars, xvars>>

\* load_secrets, secrets.py 51 / 54: os.environ["KAYA_API_TOKEN"] = ...
LoadAssignAccess == LoadAssign("access")

\* load_secrets, secrets.py 52 / 54: os.environ["KAYA_REFRESH_TOKEN"] = ...
LoadAssignRefresh == LoadAssign("refresh")

\* Lines 51-56: the refresh token is read from os.environ and
\* kaya_api_post(refresh, json_data, max_retries=0) is called.
UpdateTokensPost ==
    /\ UpdateTokensAt("json")
    /\ stack' = Append(ReplaceTop([Top EXCEPT !.at = "post"]),
                       [PostFrame(REFRESH, RefreshMaxRetries) EXCEPT !.json = RefreshJson])
    /\ UNCHANGED <<ret, environ, persisted, is_aws_lambda, headers, issued, log, n_update,
                   max_retries_arg>>
    /\ UNCHANGED <<svars, xvars>>

\* Lines 60-63: tokens.get('refresh_token', os.getenv("KAYA_REFRESH_TOKEN")); a
\* body without the key is modelled by 0.
NewRefreshToken(body_refresh_token, current) ==
    IF body_refresh_token # 0 THEN body_refresh_token ELSE current

\* kaya_api_post returned into update_tokens: lines 57-63. resp.json() raises
\* on a body that is not JSON; otherwise the new pair, the default of line 62
\* read from os.environ.
UpdateTokensReturn ==
    /\ UpdateTokensAt("post")
    /\ ret.kind = "return"
    /\ IF ret.token = NotJson
         THEN /\ stack' = Pop
              /\ ret' = Raise("JSONDecodeError")
         ELSE /\ LET new_access_token == ret.token
                     new_refresh_token == NewRefreshToken(ret.refresh_token,
                                                          environ.refresh)
                 IN stack' = ReplaceTop([Top EXCEPT
                                 !.new = [access |-> new_access_token,
                                          refresh |-> new_refresh_token],
                                 !.at = "write1"])
              /\ ret' = NoRet
    /\ UNCHANGED <<environ, persisted, is_aws_lambda, headers, issued, log, n_update,
                   max_retries_arg>>
    /\ UNCHANGED <<svars, xvars>>

\* kaya_api_post raised into update_tokens: nothing catches it there.
UpdateTokensRaise ==
    /\ UpdateTokensAt("post")
    /\ ret.kind = "raise"
    /\ stack' = Pop
    /\ UNCHANGED <<ret, environ, persisted, is_aws_lambda, headers, issued, log, n_update,
                   max_retries_arg>>
    /\ UNCHANGED <<svars, xvars>>

\* write_secrets, secrets.py 73: os.environ["KAYA_API_TOKEN"] = new_access_token,
\* a TypeError when it is None.
WriteEnvironAccess ==
    /\ UpdateTokensAt("write1")
    /\ IF Top.new.access = NoToken
         THEN /\ stack' = Pop
              /\ ret' = Raise("TypeError")
              /\ UNCHANGED environ
         ELSE /\ environ' = [environ EXCEPT !.access = Top.new.access]
              /\ stack' = ReplaceTop([Top EXCEPT !.at = "write2"])
              /\ UNCHANGED ret
    /\ UNCHANGED <<persisted, is_aws_lambda, headers, issued, log, n_update, max_retries_arg>>
    /\ UNCHANGED <<svars, xvars>>

\* write_secrets, secrets.py 74: os.environ["KAYA_REFRESH_TOKEN"] =
\* new_refresh_token, a TypeError when it is None.
WriteEnvironRefresh ==
    /\ UpdateTokensAt("write2")
    /\ IF Top.new.refresh = NoToken
         THEN /\ stack' = Pop
              /\ ret' = Raise("TypeError")
              /\ UNCHANGED environ
         ELSE /\ environ' = [environ EXCEPT !.refresh = Top.new.refresh]
              /\ stack' = ReplaceTop([Top EXCEPT !.at = "backend"])
              /\ UNCHANGED ret
    /\ UNCHANGED <<persisted, is_aws_lambda, headers, issued, log, n_update, max_retries_arg>>
    /\ UNCHANGED <<svars, xvars>>

\* write_secrets, secrets.py 84-87: put_secret_value stores the pair; line 67
\* returns it.
WriteBackend ==
    /\ UpdateTokensAt("backend")
    /\ is_aws_lambda
    /\ persisted' = Top.new
    /\ stack' = Pop
    /\ ret' = Return(Top.new.access, Top.new.refresh)
    /\ UNCHANGED <<environ, is_aws_lambda, headers, issued, log, n_update, max_retries_arg>>
    /\ UNCHANGED <<svars, xvars>>

\* write_secrets, secrets.py 84-87: put_secret_value raises, the secret stored
\* or not; os.environ is set already.
WriteBackendFails ==
    /\ UpdateTokensAt("backend")
    /\ is_aws_lambda
    /\ persisted' \in {persisted, Top.new}
    /\ stack' = Pop
    /\ ret' = Raise("ClientError")
    /\ UNCHANGED <<environ, is_aws_lambda, headers, issued, log, n_update, max_retries_arg>>
    /\ UNCHANGED <<svars, xvars>>

\* write_secrets, secrets.py 106-112: f.readlines(), or [] when there is no
\* file, and the two update_env_var calls on the lines read.
WriteReadLines ==
    /\ UpdateTokensAt("backend")
    /\ ~is_aws_lambda
    /\ stack' = ReplaceTop([Top EXCEPT
                    !.lines = update_env_var(
                                  update_env_var(env_file, ACCESS,
                                                 TokenText(Top.new.access)),
                                  REFRESH_VAR, TokenText(Top.new.refresh)),
                    !.at = "open"])
    /\ UNCHANGED <<ret, environ, persisted, is_aws_lambda, headers, issued, log, n_update,
                   max_retries_arg>>
    /\ UNCHANGED <<svars, xvars>>

\* write_secrets, secrets.py 106-108: open(env_path, 'r') or readlines() raises;
\* os.environ is set already, the file is as it was.
WriteReadLinesFails ==
    /\ UpdateTokensAt("backend")
    /\ ~is_aws_lambda
    /\ stack' = Pop
    /\ ret' = Raise("OSError")
    /\ UNCHANGED <<environ, persisted, is_aws_lambda, headers, issued, log, n_update,
                   max_retries_arg>>
    /\ UNCHANGED <<svars, xvars>>

\* write_secrets, secrets.py 113: open(env_path, 'w') empties the file.
WriteOpen ==
    /\ UpdateTokensAt("open")
    /\ env_file' = <<>>
    /\ persisted' = FilePair(env_file')
    /\ stack' = ReplaceTop([Top EXCEPT !.at = "writelines"])
    /\ UNCHANGED <<ret, environ, is_aws_lambda, headers, issued, log, n_update,
                   max_retries_arg>>
    /\ UNCHANGED wvars

\* write_secrets, secrets.py 113: open(env_path, 'w') raises, the file is as it
\* was.
WriteOpenFails ==
    /\ UpdateTokensAt("open")
    /\ stack' = Pop
    /\ ret' = Raise("OSError")
    /\ UNCHANGED <<environ, persisted, is_aws_lambda, headers, issued, log, n_update,
                   max_retries_arg>>
    /\ UNCHANGED <<svars, xvars>>

\* write_secrets, secrets.py 114: f.writelines(lines) and the close of the file;
\* line 67 returns the pair.
WriteLines ==
    /\ UpdateTokensAt("writelines")
    /\ env_file' = writelines(Top.lines)
    /\ persisted' = FilePair(env_file')
    /\ stack' = Pop
    /\ ret' = Return(Top.new.access, Top.new.refresh)
    /\ UNCHANGED <<environ, is_aws_lambda, headers, issued, log, n_update, max_retries_arg>>
    /\ UNCHANGED wvars

\* write_secrets, secrets.py 114: the write or the flush at the close raises,
\* some beginning of the lines having reached the file.
WriteLinesFails ==
    /\ UpdateTokensAt("writelines")
    /\ env_file' \in FilePrefixes(writelines(Top.lines))
    /\ persisted' = FilePair(env_file')
    /\ stack' = Pop
    /\ ret' = Raise("OSError")
    /\ UNCHANGED <<environ, is_aws_lambda, headers, issued, log, n_update, max_retries_arg>>
    /\ UNCHANGED wvars

\* update_tokens() returned into kaya_api_post (line 107 or line 120): lines 110 /
\* 122 read os.environ.
RefreshReturned ==
    /\ Len(stack) > 0
    /\ Top.fn = "kaya_api_post"
    /\ Top.at \in {"try", "handler"}
    /\ ret.kind = "return"
    /\ stack' = ReplaceTop([Top EXCEPT !.tok = HeaderAfterRefresh, !.at = "reheader"])
    /\ ret' = NoRet
    /\ UNCHANGED <<environ, persisted, is_aws_lambda, headers, issued, log, n_update,
                   max_retries_arg>>
    /\ UNCHANGED <<svars, xvars>>

\* Lines 109-112 / 121-124: the header is assigned and the loop continues.
PostContinue ==
    /\ PostAt("reheader")
    /\ Continue
    /\ UNCHANGED log
    /\ UNCHANGED <<svars, xvars>>

\* update_tokens() called at line 107 raised HTTPError: the handler of line 115
\* runs with the 401 response of this attempt still in `response`.
RefreshHttpErrorInTry ==
    /\ Len(stack) > 0
    /\ Top.fn = "kaya_api_post"
    /\ Top.at = "try"
    /\ ret.kind = "raise"
    /\ ret.exc = "HTTPError"
    /\ HandleHTTPError(401)
    /\ UNCHANGED log
    /\ UNCHANGED <<svars, xvars>>

\* update_tokens() raised something the frame does not handle: any exception
\* other than HTTPError at line 107 (handler of line 128 re-raises), anything at
\* line 120 (raised inside a handler).
RefreshRaised ==
    /\ Len(stack) > 0
    /\ Top.fn = "kaya_api_post"
    /\ \/ Top.at = "handler"
       \/ Top.at = "try" /\ ret.exc # "HTTPError"
    /\ ret.kind = "raise"
    /\ stack' = Pop
    /\ UNCHANGED <<ret, environ, persisted, is_aws_lambda, headers, issued, log, n_update,
                   max_retries_arg>>
    /\ UNCHANGED <<svars, xvars>>

(***************************************************************************)
(* update_gym_data                                                         *)
(***************************************************************************)
\* 'count' of the webAscentsForGym query.
PageSize == 15

NotReturned == [kind |-> "pending", batch |-> <<>>]
None == [kind |-> "None", batch |-> <<>>]
DataFrame(rows) == [kind |-> "DataFrame", batch |-> rows]

\* A DataFrame is modelled by its send_id column.
Page(first, n) == [i \in 1..n |-> first + i - 1]

Keys(d) == {d[i] : i \in 1..Len(d)}

\* Pages the upstream may answer with: full pages, one of them overlapping the
\* two others, a full page listing one send twice, short pages, the empty page.
PageChoices ==
    {Page(1, PageSize), Page(PageSize + 1, PageSize), Page(PageSize, PageSize),
     <<1>> \o Page(1, PageSize - 1),
     Page(2 * PageSize + 1, 1), Page(1, 2), <<>>}

Upstreams == UNION {[1..n -> PageChoices] : n \in 0..MaxPages}

StoreChoices == {{}, {1, 2}, 1..PageSize, (PageSize + 1)..(2 * PageSize + 1)}

BatchSizes == {1, 2, PageSize + 1}

StartOffsets == {0, PageSize}

\* Exceptions get_data_for_gym can raise: those of kaya_api_post (HTTPError,
\* ConnectionError, the exhausted-retries Exception) and the GraphQL 'errors' one.
FetchExceptions == {"HTTPError", "ConnectionError", "Exception", "GraphQLErrors"}

\* get_data_for_gym(gym_id, offset) when the request succeeds: the upstream's page
\* at that offset, the empty DataFrame when it has none.
get_data_for_gym(o) ==
    LET i == (o \div PageSize) + 1
    IN IF i <= Len(pages) THEN pages[i] ELSE <<>>

\* What a call of the database layer gives back: a value, or an exception.
Got(ids) == [kind |-> "return", ids |-> ids]
Failed == [kind |-> "raise", ids |-> {}]

\* Mutant: the table is read as empty.
get_existing_send_ids_Empty == Got({})

\* get_existing_send_ids(gym_id): the send_ids of the gym's rows; read_sql_query
\* (lines 431-435) raises when the database has no table 'sends'.
get_existing_send_ids == IF table_exists THEN Got(store) ELSE Failed

\* pd.concat(all_data, ignore_index=True)
RECURSIVE concat(_)
concat(frames) ==
    IF frames = <<>> THEN <<>> ELSE Head(frames) \o concat(Tail(frames))

\* sum(len(d) for d in all_data)
RECURSIVE PendingCount(_)
PendingCount(frames) ==
    IF frames = <<>> THEN 0 ELSE Len(Head(frames)) + PendingCount(Tail(frames))

\* Mutant: nothing is filtered out.
FilterSeen_KeepsAll(d, seen) == d

\* Lines 511-518: the page with the already-seen rows filtered out.
FilterSeen(d, seen) ==
    IF seen # {} /\ (Keys(d) \cap seen) # {}
      THEN SelectSeq(d, LAMBDA k : k \notin seen)
      ELSE d

\* Mutant: seen_send_ids is not updated with the page's send_ids.
UpdateSeen_Forgets(seen, d) == seen

\* Line 525: seen_send_ids.update(df['send_id'])
UpdateSeen(seen, d) == seen \cup Keys(d)

\* Mutant: the flush waits for one more page than the threshold.
FlushDue_Late(frames, size) == PendingCount(frames) >= size + 15

\* Mutant: off-by-one threshold.
FlushDue_Strict(frames, size) == PendingCount(frames) > size

\* Line 527
FlushDue(frames, size) == PendingCount(frames) >= size

\* Mutant: the pending frames are kept after a flush.
PendingAfterFlush_Keeps(frames) == frames

\* Line 561: all_data = []
PendingAfterFlush(frames) == <<>>

\* Mutant: only an empty page counts as short.
IsShortPage_OnlyEmpty(d) == Len(d) < 1

\* Mutant: a full page counts as short too.
IsShortPage_Inclusive(d) == Len(d) <= 15

\* Line 562
IsShortPage(d) == Len(d) < 15

\* Mutant: the offset advances by one row instead of one page.
NextOffset_OneRow(o) == o + 1

\* Mutant: the offset does not advance.
NextOffset_Stays(o) == o

\* Mutant: the offset skips a page.
NextOffset_SkipsPage(o) == o + 2 * 15

\* Line 568
NextOffset(o) == o + 15

\* write_dataframe(batch_df, 'sends', if_exists='upsert') when it succeeds: one row
\* per send_id.
write_dataframe(table, batch_df) == table \cup Keys(batch_df)

\* A database whose table holds rows has the table; one that holds none may be
\* new, write_dataframe (db_manager.py 88-105) not having created the table yet.
TableChoices(rows) == IF rows = {} THEN BOOLEAN ELSE {TRUE}

\* The client is not in a call.
PostIdle ==
    /\ stack = <<>> /\ ret = NoRet /\ environ = [access |-> 0, refresh |-> 0]
    /\ persisted = [access |-> 0, refresh |-> 0] /\ headers = 0 /\ issued = 0
    /\ log = <<>> /\ n_update = 0 /\ max_retries_arg = 0
    /\ is_aws_lambda = FALSE

\* No second call of kaya_api_post is under way.
NoOther == [stack |-> <<>>, ret |-> NoRet, switches |-> 0]
OneCall == other = NoOther

\* No batch job is running and the table's columns are not looked at.
JobIdle == jpc = "idle" /\ gyms = <<>> /\ gym_i = 0 /\ results = <<>>

NotSaved == [at |-> "idle", n |-> 0, before |-> <<>>, lines |-> <<>>,
             access |-> "", refresh |-> "", exc |-> "none", load_todo |-> <<>>]

\* The table's columns and the .env file are not looked at.
TableIdle == sends = <<>> /\ last_write = <<>> /\ env_file = <<>> /\ env_saved = NotSaved

\* Lines 465-474: update_gym_data has been called.
Init ==
    /\ pages \in Upstreams
    /\ store \in StoreChoices
    /\ table_exists \in TableChoices(store)
    /\ store0 = store
    /\ mode \in {"full", "incremental"}
    /\ batch_size \in BatchSizes
    /\ start_offset \in StartOffsets
    /\ offset = start_offset
    /\ all_data = <<>>
    /\ total_written = 0
    /\ seen_send_ids = {}
    /\ df = <<>>
    /\ pc = "start"
    /\ result = NotReturned
    /\ last_exc = "none"
    /\ fetched = <<>>
    /\ flushes = <<>>
    /\ flush_at = <<>>
    /\ PostIdle
    /\ run = 1 /\ JobIdle /\ OneCall /\ TableIdle

\* Lines 476-480, incremental mode: the table's send_ids for the gym are read.
ReadExisting ==
    /\ pc = "start"
    /\ mode = "incremental"
    /\ get_existing_send_ids.kind = "return"
    /\ seen_send_ids' = get_existing_send_ids.ids
    /\ pc' = "fetch"
    /\ UNCHANGED <<pages, store, table_exists, store0, mode, batch_size, start_offset, offset,
                   df, all_data, total_written, result, last_exc, fetched,
                   flushes, flush_at>>
    /\ UNCHANGED <<cvars, xvars>>

\* Lines 476-480, incremental mode: get_existing_send_ids raises, nothing in
\* update_gym_data catches it.
ReadExistingRaises ==
    /\ pc = "start"
    /\ mode = "incremental"
    /\ get_existing_send_ids.kind = "raise"
    /\ pc' = "raised"
    /\ UNCHANGED <<pages, store, table_exists, store0, mode, batch_size, start_offset, offset,
                   df, all_data, seen_send_ids, total_written, result, last_exc, fetched,
                   flushes, flush_at>>
    /\ UNCHANGED <<cvars, xvars>>

\* Lines 481-482, full mode: seen_send_ids = set()
NoExisting ==
    /\ pc = "start"
    /\ mode = "full"
    /\ seen_send_ids' = {}
    /\ pc' = "fetch"
    /\ UNCHANGED <<pages, store, table_exists, store0, mode, batch_size, start_offset, offset,
                   df, all_data, total_written, result, last_exc, fetched,
                   flushes, flush_at>>
    /\ UNCHANGED <<cvars, xvars>>

\* Lines 499-505: get_data_for_gym raised; log, sleep, `continue` at the same offset.
FetchFails ==
    /\ pc = "fetch"
    /\ \E e \in FetchExceptions : last_exc' = e
    /\ UNCHANGED <<pc, pages, store, table_exists, store0, mode, batch_size, start_offset, offset,
                   df, all_data, seen_send_ids, total_written, result, fetched,
                   flushes, flush_at>>
    /\ UNCHANGED <<cvars, xvars>>

\* Lines 500, 506-509: the fetch succeeded; an empty page ends the loop.
FetchOk ==
    /\ pc = "fetch"
    /\ df' = get_data_for_gym(offset)
    /\ fetched' = Append(fetched, [offset |-> offset, n |-> Len(df')])
    /\ pc' = IF df' = <<>> THEN "final" ELSE "filter"
    /\ last_exc' = "none"
    /\ UNCHANGED <<pages, store, table_exists, store0, mode, batch_size, start_offset, offset,
                   all_data, seen_send_ids, total_written, result, flushes, flush_at>>
    /\ UNCHANGED <<cvars, xvars>>

\* Lines 510-526: incremental filtering, then the page joins the pending frames.
FilterAndAppend ==
    /\ pc = "filter"
    /\ IF mode = "incremental"
         THEN LET kept == FilterSeen(df, seen_send_ids)
              IN /\ df' = kept
                 /\ IF kept = <<>>
                      THEN /\ pc' = "final"
                           /\ UNCHANGED <<seen_send_ids, all_data>>
                      ELSE /\ seen_send_ids' = UpdateSeen(seen_send_ids, kept)
                           /\ all_data' = Append(all_data, kept)
                           /\ pc' = "batch"
         ELSE /\ all_data' = Append(all_data, df)
              /\ pc' = "batch"
              /\ UNCHANGED <<df, seen_send_ids>>
    /\ UNCHANGED <<pages, store, table_exists, store0, mode, batch_size, start_offset, offset,
                   total_written, result, last_exc, fetched, flushes, flush_at>>
    /\ UNCHANGED <<cvars, xvars>>

\* Lines 527-561, threshold reached and write_dataframe succeeds.
FlushInLoop ==
    /\ pc = "batch"
    /\ FlushDue(all_data, batch_size)
    /\ LET batch_df == concat(all_data)
       IN /\ store' = write_dataframe(store, batch_df)
          /\ table_exists' = TRUE
          /\ total_written' = total_written + Len(batch_df)
          /\ flushes' = Append(flushes, batch_df)
          /\ flush_at' = Append(flush_at, "loop")
    /\ all_data' = PendingAfterFlush(all_data)
    /\ pc' = "short"
    /\ UNCHANGED <<pages, store0, mode, batch_size, start_offset, offset, df,
                   seen_send_ids, result, last_exc, fetched>>
    /\ UNCHANGED <<cvars, xvars>>

\* The table after a flush that raised. The rows of the batch are rolled back.
\* A database without the table keeps it that way when the exception comes
\* before write_dataframe (the astype(int) of lines 529-553 / 575-599) or when
\* the driver rolls CREATE TABLE back with the transaction (PostgreSQL); with
\* sqlite3 the table created at db_manager.py 88-105 stays.
TableAfterFailedWrite == {table_exists, TRUE}

\* Lines 527-559, the dtype conversion or write_dataframe raises: nothing in
\* update_gym_data catches it.
FlushInLoopRaises ==
    /\ pc = "batch"
    /\ FlushDue(all_data, batch_size)
    /\ pc' = "raised"
    /\ table_exists' \in TableAfterFailedWrite
    /\ UNCHANGED <<pages, store, store0, mode, batch_size, start_offset, offset, df,
                   all_data, seen_send_ids, total_written, result, last_exc, fetched, flushes, flush_at>>
    /\ UNCHANGED <<cvars, xvars>>

\* Line 527, threshold not reached.
NoFlush ==
    /\ pc = "batch"
    /\ ~FlushDue(all_data, batch_size)
    /\ pc' = "short"
    /\ UNCHANGED <<pages, store, table_exists, store0, mode, batch_size, start_offset, offset, df,
                   all_data, seen_send_ids, total_written, result, last_exc, fetched, flushes, flush_at>>
    /\ UNCHANGED <<cvars, xvars>>

\* Lines 562-569: a short page ends the loop, otherwise the offset advances.
ShortPageCheck ==
    /\ pc = "short"
    /\ IF IsShortPage(df)
         THEN pc' = "final" /\ offset' = offset
         ELSE pc' = "fetch" /\ offset' = NextOffset(offset)
    /\ UNCHANGED <<pages, store, table_exists, store0, mode, batch_size, start_offset, df,
                   all_data, seen_send_ids, total_written, result, last_exc, fetched, flushes, flush_at>>
    /\ UNCHANGED <<cvars, xvars>>

\* Lines 573-608: pending frames remain, write_dataframe succeeds, batch_df returned.
FinalFlush ==
    /\ pc = "final"
    /\ all_data # <<>>
    /\ LET batch_df == concat(all_data)
       IN /\ store' = write_dataframe(store, batch_df)
          /\ table_exists' = TRUE
          /\ total_written' = total_written + Len(batch_df)
          /\ flushes' = Append(flushes, batch_df)
          /\ flush_at' = Append(flush_at, "final")
          /\ result' = DataFrame(batch_df)
    /\ pc' = "done"
    /\ UNCHANGED <<pages, store0, mode, batch_size, start_offset, offset, df,
                   all_data, seen_send_ids, last_exc, fetched>>
    /\ UNCHANGED <<cvars, xvars>>

\* Lines 573-605, the dtype conversion or write_dataframe raises.
FinalFlushRaises ==
    /\ pc = "final"
    /\ all_data # <<>>
    /\ pc' = "raised"
    /\ table_exists' \in TableAfterFailedWrite
    /\ UNCHANGED <<pages, store, store0, mode, batch_size, start_offset, offset, df,
                   all_data, seen_send_ids, total_written, result, last_exc, fetched, flushes, flush_at>>
    /\ UNCHANGED <<cvars, xvars>>

\* Lines 609-611: nothing pending, None returned.
ReturnNone ==
    /\ pc = "final"
    /\ all_data = <<>>
    /\ result' = None
    /\ pc' = "done"
    /\ UNCHANGED <<pages, store, table_exists, store0, mode, batch_size, start_offset, offset, df,
                   all_data, seen_send_ids, total_written, last_exc, fetched, flushes, flush_at>>
    /\ UNCHANGED <<cvars, xvars>>

Next ==
    \/ ReadExisting
    \/ ReadExistingRaises
    \/ NoExisting
    \/ FetchFails
    \/ FetchOk
    \/ FilterAndAppend
    \/ FlushInLoop
    \/ FlushInLoopRaises
    \/ NoFlush
    \/ ShortPageCheck
    \/ FinalFlush
    \/ FinalFlushRaises
    \/ ReturnNone

Spec == Init /\ [][Next]_vars

SyncIdle ==
    /\ pc = "idle" /\ pages = <<>> /\ store = {} /\ store0 = {} /\ mode = "full"
    /\ table_exists = FALSE
    /\ batch_size = 0 /\ start_offset = 0 /\ offset = 0 /\ df = <<>>
    /\ all_data = <<>> /\ seen_send_ids = {}
    /\ total_written = 0 /\ result = NotReturned /\ last_exc = "none"
    /\ fetched = <<>> /\ flushes = <<>> /\ flush_at = <<>>

\* The .env files of a process whose os.environ holds token 0 for both
\* variables, from the file or from the environment it was started in: the two
\* tokens on their lines; the refresh token and a last line without newline; the
\* access token after `export `, without newline; the access token with blanks
\* around "="; no file.
PostEnvFiles ==
    {<<Line(<<ACCESS, "=", "0">>, TRUE), Line(<<REFRESH_VAR, "=", "0">>, TRUE)>>,
     <<Line(<<REFRESH_VAR, "=", "0">>, TRUE), Line(<<"DB_URL", "=", "sqlite">>, FALSE)>>,
     <<Line(<<"export", " ", ACCESS, "=", "0">>, FALSE)>>,
     <<Line(<<ACCESS, " ", "=", " ", "0">>, TRUE), Line(<<REFRESH_VAR, "=", "0">>, TRUE)>>,
     <<>>}

\* The secrets backend of the process: Secrets Manager with one of the secrets
\* `secrets`, or one of the .env files `files`.
BackendInit(secrets, files) ==
    /\ is_aws_lambda \in BOOLEAN
    /\ env_file \in (IF is_aws_lambda THEN {<<>>} ELSE files)
    /\ persisted \in (IF is_aws_lambda THEN secrets ELSE {FilePair(env_file)})
    /\ sends = <<>> /\ last_write = <<>> /\ env_saved = NotSaved

\* kaya_api_post(graphql, json_data, max_retries) has just been called, in a
\* process whose environment, backend and HEADERS hold the tokens an earlier call
\* left there.
InitPost ==
    /\ max_retries_arg \in 0..MaxRetries
    /\ stack = <<PostFrame(GRAPHQL, max_retries_arg)>>
    /\ ret = NoRet
    /\ environ = [access |-> 0, refresh |-> 0]
    /\ headers = 0
    /\ issued = 0
    /\ BackendInit({environ}, PostEnvFiles)
    /\ log = <<>>
    /\ n_update = 0
    /\ SyncIdle
    /\ run = 1 /\ JobIdle /\ OneCall

NextPost ==
    \/ PostReadToken
    \/ PostSetHeader
    \/ PostSend
    \/ SendOk
    \/ SendUnauthorized
    \/ SendHttpError
    \/ SendTransportError
    \/ LoadSecretsRead
    \/ LoadSecretsFails
    \/ LoadAssignAccess
    \/ LoadAssignRefresh
    \/ UpdateTokensPost
    \/ UpdateTokensReturn
    \/ UpdateTokensRaise
    \/ WriteEnvironAccess
    \/ WriteEnvironRefresh
    \/ WriteBackend
    \/ WriteBackendFails
    \/ WriteReadLines
    \/ WriteReadLinesFails
    \/ WriteOpen
    \/ WriteOpenFails
    \/ WriteLines
    \/ WriteLinesFails
    \/ RefreshReturned
    \/ PostContinue
    \/ RefreshHttpErrorInTry
    \/ RefreshRaised

SpecPost == InitPost /\ [][NextPost]_vars

(***************************************************************************)
(* Two interleaved calls of kaya_api_post                                  *)
(*                                                                         *)
(* kaya_api_post and update_tokens take no lock: os.environ, the secret    *)
(* store and the module's HEADERS dict are shared by every call of the     *)
(* process.  Two calls are started with the default max_retries; one runs, *)
(* the other is suspended between two of its steps, and Switch hands the   *)
(* processor over.                                                         *)
(***************************************************************************)
\* Line 70: `max_retries: int = 1`.
DefaultMaxRetries == 1

\* The .env file of the process: the two tokens on their lines.
RaceEnvFiles ==
    {<<Line(<<ACCESS, "=", "0">>, TRUE), Line(<<REFRESH_VAR, "=", "0">>, TRUE)>>}

InitRace ==
    /\ max_retries_arg = DefaultMaxRetries
    /\ stack = <<PostFrame(GRAPHQL, max_retries_arg)>>
    /\ ret = NoRet
    /\ other = [stack |-> <<PostFrame(GRAPHQL, max_retries_arg)>>, ret |-> NoRet,
                switches |-> 0]
    /\ environ = [access |-> 0, refresh |-> 0]
    /\ headers = 0
    /\ issued = 0
    /\ BackendInit({environ}, RaceEnvFiles)
    /\ log = <<>>
    /\ n_update = 0
    /\ SyncIdle
    /\ run = 1 /\ JobIdle

\* The running call is suspended where it stands and the other call resumes:
\* nothing in lines 70-131 or 31-67 prevents it.
Switch ==
    /\ other.stack # <<>>
    /\ other.switches < MaxSwitches
    /\ stack' = other.stack
    /\ ret' = other.ret
    /\ other' = [stack |-> stack, ret |-> ret, switches |-> other.switches + 1]
    /\ UNCHANGED <<environ, persisted, is_aws_lambda, headers, issued, log, n_update,
                   max_retries_arg, svars, run, jvars, tvars, fvars>>

NextRace ==
    \/ NextPost
    \/ Switch

SpecRace == InitRace /\ [][NextRace]_vars

(***************************************************************************)
(* write_dataframe(df, 'sends', if_exists='upsert'), row by row            *)
(***************************************************************************)
\* A record of the DataFrame / a row of the table: the key column, a column that
\* may be null, and the boolean column is_private.
Vals == {"NULL", "a"}

\* None / NaN in a boolean column.
NullFlag == -1

Flags == {NullFlag, 1}

Record(k, v, p) == [send_id |-> k, val |-> v, is_private |-> p]
Records == {Record(k, v, p) : k \in 1..MaxKey, v \in Vals, p \in Flags}

\* The DataFrames handed over, row by row.
Batches == UNION {[1..n -> Records] : n \in 0..MaxBatchRows}

\* Lines 74-76: df[col] = df[col].fillna(0).astype(int), for one value.
fillna(p) == IF p = NullFlag THEN 0 ELSE p

\* Lines 74-76 and 116: the records of the DataFrame once its boolean columns
\* are normalised, df.to_dict(orient='records').
to_records(batch) ==
    [i \in 1..Len(batch) |-> [batch[i] EXCEPT !.is_private = fillna(@)]]

HasKey(rows, k) == \E i \in 1..Len(rows) : rows[i].send_id = k

\* Mutant: ON CONFLICT DO NOTHING.
execute_upsert_DoNothing(rows, row) ==
    IF HasKey(rows, row.send_id) THEN rows ELSE Append(rows, row)

\* Lines 158-167: one statement, INSERT ... ON CONFLICT (send_id) DO UPDATE SET
\* c = <the record's c> for every column c other than send_id.
execute_upsert(rows, row) ==
    IF HasKey(rows, row.send_id)
      THEN [i \in 1..Len(rows) |->
              IF rows[i].send_id = row.send_id
                THEN [rows[i] EXCEPT !.val = row.val, !.is_private = row.is_private]
                ELSE rows[i]]
      ELSE Append(rows, row)

\* Lines 143-167: the statements of the loop `for row in records`, in order.
RECURSIVE upsert_records(_, _)
upsert_records(rows, records) ==
    IF records = <<>>
      THEN rows
      ELSE upsert_records(execute_upsert(rows, Head(records)), Tail(records))

\* Lines 73-167: the table after write_dataframe(batch, 'sends',
\* if_exists='upsert') has committed.
upsert_dataframe(rows, batch) == upsert_records(rows, to_records(batch))

NeverWritten == [val |-> "NULL", is_private |-> NullFlag, written |-> FALSE]

\* History of the upserts: per send_id the latest record handed over for it, as
\* the caller's DataFrame held it.
RECURSIVE Written(_, _)
Written(w, batch) ==
    IF batch = <<>>
      THEN w
      ELSE LET r == Head(batch)
           IN Written([w EXCEPT ![r.send_id] =
                          [val |-> r.val, is_private |-> r.is_private, written |-> TRUE]],
                      Tail(batch))

\* The database is new: write_dataframe creates the table at its first call
\* (lines 88-105), send_id being its primary key.
InitStore ==
    /\ sends = <<>>
    /\ last_write = [latest |-> [k \in 1..MaxKey |-> NeverWritten], calls |-> 0]
    /\ env_file = <<>> /\ env_saved = NotSaved
    /\ PostIdle /\ SyncIdle /\ run = 1 /\ JobIdle /\ OneCall

\* Lines 52-167: one write_dataframe call whose transaction commits.
WriteDataframe ==
    /\ last_write.calls < MaxWrites
    /\ \E batch \in Batches :
          /\ batch # <<>>
          /\ sends' = upsert_dataframe(sends, batch)
          /\ last_write' = [latest |-> Written(last_write.latest, batch),
                            calls |-> last_write.calls + 1]
    /\ UNCHANGED <<cvars, svars, run, jvars, fvars, other>>

NextStore == WriteDataframe

SpecStore == InitStore /\ [][NextStore]_vars

(***************************************************************************)
(* update_all_gyms                                                         *)
(***************************************************************************)
\* A gym of the configuration: the pages the API holds for it and its rows in
\* table 'sends' when the job starts.
Gym(upstream, rows) == [pages |-> upstream, store |-> rows]

GymChoices ==
    {Gym(<<>>, {}),
     Gym(<<Page(1, 2)>>, {}),
     Gym(<<Page(1, 2)>>, {1, 2}),
     Gym(<<Page(1, PageSize), Page(PageSize + 1, 1)>>, {})}

\* load_gyms_config(): the items of the JSON object, in file order.
Configs == UNION {[1..n -> GymChoices] : n \in 0..MaxGyms}

JobBatchSizes == {2, PageSize + 1}

\* A string made of a fixed text followed by a message.
Str(text, message) == <<text, message>>

\* The message of the exception write_dataframe raises.
StoreError == "OperationalError"

\* Line 67
SuccessResult == Str("Success", "")

\* Mutant: a failed gym is reported like a successful one.
ErrorResult_Success(e) == Str("Success", "")

\* Line 71: f"Error: {e}"
ErrorResult(e) == Str("Error: ", e)

\* Mutant: no try/except around update_gym_data, the exception ends the job.
AfterError_Abort == "returned"

\* Lines 69-71: the except clause ends the iteration, the loop goes on.
AfterError == "loop"

\* Lines 54-55: the configuration is loaded, results is empty.
InitJob ==
    /\ gyms \in Configs
    /\ gym_i = 0
    /\ results = <<>>
    /\ jpc = "loop"
    /\ mode \in {"full", "incremental"}
    /\ batch_size \in JobBatchSizes
    /\ pc = "idle" /\ pages = <<>> /\ store = {} /\ store0 = {}
    /\ table_exists \in TableChoices(UNION {gyms[i].store : i \in 1..Len(gyms)})
    /\ start_offset = 0 /\ offset = 0 /\ df = <<>>
    /\ all_data = <<>> /\ seen_send_ids = {}
    /\ total_written = 0 /\ result = NotReturned /\ last_exc = "none"
    /\ fetched = <<>> /\ flushes = <<>> /\ flush_at = <<>>
    /\ PostIdle /\ run = 1 /\ TableIdle /\ OneCall

\* Lines 56-66 and data_puller.py 465-474: the next row of the configuration,
\* update_gym_data called for it.
JobCallSync ==
    /\ jpc = "loop"
    /\ gym_i < Len(gyms)
    /\ gym_i' = gym_i + 1
    /\ jpc' = "sync"
    /\ pages' = gyms[gym_i'].pages
    /\ store' = gyms[gym_i'].store
    /\ store0' = store'
    /\ start_offset' = 0
    /\ offset' = start_offset'
    /\ all_data' = <<>>
    /\ total_written' = 0
    /\ seen_send_ids' = {}
    /\ df' = <<>>
    /\ pc' = "start"
    /\ result' = NotReturned
    /\ last_exc' = "none"
    /\ fetched' = <<>>
    /\ flushes' = <<>>
    /\ flush_at' = <<>>
    /\ UNCHANGED <<table_exists, mode, batch_size, gyms, results, run, tvars, fvars, other, cvars>>

\* Line 67: update_gym_data returned.
JobSuccess ==
    /\ jpc = "sync"
    /\ pc = "done"
    /\ results' = results @@ (gym_i :> SuccessResult)
    /\ pc' = "idle"
    /\ jpc' = "loop"
    /\ UNCHANGED <<pages, store, table_exists, store0, mode, batch_size, start_offset, offset, df,
                   all_data, seen_send_ids, total_written, result, last_exc, fetched,
                   flushes, flush_at>>
    /\ UNCHANGED <<gyms, gym_i, run, tvars, fvars, other, cvars>>

\* Lines 68-71: update_gym_data raised.
JobError ==
    /\ jpc = "sync"
    /\ pc = "raised"
    /\ results' = results @@ (gym_i :> ErrorResult(StoreError))
    /\ pc' = "idle"
    /\ jpc' = AfterError
    /\ UNCHANGED <<pages, store, table_exists, store0, mode, batch_size, start_offset, offset, df,
                   all_data, seen_send_ids, total_written, result, last_exc, fetched,
                   flushes, flush_at>>
    /\ UNCHANGED <<gyms, gym_i, run, tvars, fvars, other, cvars>>

\* Line 72: the rows are exhausted.
JobReturn ==
    /\ jpc = "loop"
    /\ gym_i = Len(gyms)
    /\ jpc' = "returned"
    /\ UNCHANGED <<svars, gyms, gym_i, results, run, tvars, fvars, other, cvars>>

NextJob ==
    \/ JobCallSync
    \/ JobSuccess
    \/ JobError
    \/ JobReturn
    \/ ReadExisting
    \/ ReadExistingRaises
    \/ NoExisting
    \/ FetchFails
    \/ FetchOk
    \/ FilterAndAppend
    \/ FlushInLoop
    \/ FlushInLoopRaises
    \/ NoFlush
    \/ ShortPageCheck
    \/ FinalFlush
    \/ FinalFlushRaises
    \/ ReturnNone

SpecJob == InitJob /\ [][NextJob]_vars

(***************************************************************************)
(* update_gym_data against a stable upstream, interrupted and run again    *)
(***************************************************************************)
\* The API's pages for n records listed newest first, send_ids 1..n.
FlatPages(n) ==
    [i \in 1..((n + PageSize - 1) \div PageSize) |->
        Page((i - 1) * PageSize + 1,
             IF n - (i - 1) * PageSize < PageSize THEN n - (i - 1) * PageSize
                                                  ELSE PageSize)]

\* The tables holding exactly the records older than some point.
Suffixes(n) == {k..n : k \in 1..(n + 1)}

\* Lines 465-474, the first run: from offset 0, the table holding a recency
\* suffix of the upstream.
InitResume ==
    /\ \E n \in 0..MaxRecords :
          /\ pages = FlatPages(n)
          /\ store \in Suffixes(n)
    /\ table_exists \in TableChoices(store)
    /\ store0 = store
    /\ mode \in {"full", "incremental"}
    /\ batch_size \in BatchSizes
    /\ start_offset = 0
    /\ offset = start_offset
    /\ all_data = <<>>
    /\ total_written = 0
    /\ seen_send_ids = {}
    /\ df = <<>>
    /\ pc = "start"
    /\ result = NotReturned
    /\ last_exc = "none"
    /\ fetched = <<>>
    /\ flushes = <<>>
    /\ flush_at = <<>>
    /\ run = 1
    /\ PostIdle /\ JobIdle /\ OneCall /\ TableIdle

\* The process is stopped from outside after a flush, and update_gym_data is
\* called again in incremental mode (lines 465-474): the table keeps what was
\* committed, everything in memory starts afresh.
InterruptAndRerun ==
    /\ run = 1
    /\ flushes # <<>>
    /\ pc \notin {"done", "raised"}
    /\ run' = 2
    /\ mode' = "incremental"
    /\ offset' = start_offset
    /\ all_data' = <<>>
    /\ total_written' = 0
    /\ store0' = store
    /\ seen_send_ids' = {}
    /\ df' = <<>>
    /\ pc' = "start"
    /\ result' = NotReturned
    /\ last_exc' = "none"
    /\ fetched' = <<>>
    /\ flushes' = <<>>
    /\ flush_at' = <<>>
    /\ UNCHANGED <<pages, store, table_exists, batch_size, start_offset, jvars, tvars, fvars, other, cvars>>

NextResume ==
    \/ InterruptAndRerun
    \/ ReadExisting
    \/ ReadExistingRaises
    \/ NoExisting
    \/ FetchFails
    \/ FetchOk
    \/ FilterAndAppend
    \/ FlushInLoop
    \/ FlushInLoopRaises
    \/ NoFlush
    \/ ShortPageCheck
    \/ FinalFlush
    \/ FinalFlushRaises
    \/ ReturnNone

SpecResume == InitResume /\ [][NextResume]_vars

(***************************************************************************)
(* update_gym_data as a process that keeps running                         *)
(***************************************************************************)
LiveStartOffsets == {0, PageSize, 3 * PageSize}

\* Lines 465-474: a run over a finite upstream, from any of the start offsets.
InitLive ==
    /\ \E n \in 0..MaxRecords :
          /\ pages = FlatPages(n)
          /\ store \in {{}, 1..n, ((n \div 2) + 1)..n}
    /\ table_exists \in TableChoices(store)
    /\ store0 = store
    /\ mode \in {"full", "incremental"}
    /\ batch_size \in BatchSizes
    /\ start_offset \in LiveStartOffsets
    /\ offset = start_offset
    /\ all_data = <<>>
    /\ total_written = 0
    /\ seen_send_ids = {}
    /\ df = <<>>
    /\ pc = "start"
    /\ result = NotReturned
    /\ last_exc = "none"
    /\ fetched = <<>>
    /\ flushes = <<>>
    /\ flush_at = <<>>
    /\ run = 1
    /\ PostIdle /\ JobIdle /\ OneCall /\ TableIdle

\* The interpreter keeps executing update_gym_data: some step is taken as long as
\* one is possible. Nothing makes a fetch succeed.
SpecLive == InitLive /\ [][Next]_vars /\ WF_vars(Next)

(***************************************************************************)
(* update_gym_data called again after it returned                          *)
(***************************************************************************)
\* Lines 465-474: the first call has returned and update_gym_data is called again
\* for the same gym, in incremental mode with the default start_offset 0;
\* start_offset keeps the argument of the first call.
RunAgain ==
    /\ run = 1
    /\ pc = "done"
    /\ run' = 2
    /\ mode' = "incremental"
    /\ offset' = 0
    /\ all_data' = <<>>
    /\ total_written' = 0
    /\ store0' = store
    /\ seen_send_ids' = {}
    /\ df' = <<>>
    /\ pc' = "start"
    /\ result' = NotReturned
    /\ last_exc' = "none"
    /\ fetched' = <<>>
    /\ flushes' = <<>>
    /\ flush_at' = <<>>
    /\ UNCHANGED <<pages, store, table_exists, batch_size, start_offset, jvars, tvars, fvars, other, cvars>>

NextAgain ==
    \/ RunAgain
    \/ ReadExisting
    \/ ReadExistingRaises
    \/ NoExisting
    \/ FetchFails
    \/ FetchOk
    \/ FilterAndAppend
    \/ FlushInLoop
    \/ FlushInLoopRaises
    \/ NoFlush
    \/ ShortPageCheck
    \/ FinalFlush
    \/ FinalFlushRaises
    \/ ReturnNone

SpecAgain == InitLive /\ [][NextAgain]_vars

(***************************************************************************)
(* kaya_api_post in a process whose environment holds no tokens            *)
(***************************************************************************)
\* The .env files that give neither token: no file, a file with another
\* variable.
LoadEnvFiles ==
    {<<>>, <<Line(<<"DB_URL", "=", "sqlite">>, FALSE)>>}

\* kaya_api_post(graphql, json_data, max_retries) has just been called (lines
\* 93-94) in a process whose os.environ has no tokens: either the local .env file
\* has none, and load_dotenv found nothing to set, or the process is an AWS Lambda,
\* where nothing reads Secrets Manager before the first update_tokens.
InitLoad ==
    /\ max_retries_arg \in 0..MaxRetries
    /\ stack = <<PostFrame(GRAPHQL, max_retries_arg)>>
    /\ ret = NoRet
    /\ environ = NoTokens
    /\ headers = environ.access
    /\ issued = 0
    /\ BackendInit({NoTokens, [access |-> 0, refresh |-> 0]}, LoadEnvFiles)
    /\ log = <<>>
    /\ n_update = 0
    /\ SyncIdle
    /\ run = 1 /\ JobIdle /\ OneCall

SpecLoad == InitLoad /\ [][NextPost]_vars

(***************************************************************************)
(* write_secrets, local branch: the .env file                              *)
(***************************************************************************)
\* Texts the file may hold: the two tokens, the access token indented, after
\* `export `, with blanks around "=", a variable whose name extends the access
\* token's, another variable, a comment.
Texts ==
    {<<ACCESS, "=", "a0">>,
     <<REFRESH_VAR, "=", "r0">>,
     <<" ", ACCESS, "=", "a0">>,
     <<"export", " ", ACCESS, "=", "a0">>,
     <<REFRESH_VAR, " ", "=", " ", "r0">>,
     <<"KAYA_API_TOKEN_OLD", "=", "x">>,
     <<"DB_URL", "=", "sqlite">>,
     <<"#", "tokens">>}

\* f.readlines() of the files that can exist.
EnvFiles ==
    UNION {{f \in [1..n -> {Line(t, b) : t \in Texts, b \in BOOLEAN}] :
               \A i \in 1..(n - 1) : f[i].nl} : n \in 0..MaxLines}

TokenPairs == {[access |-> "a1", refresh |-> "r1"], [access |-> "a2", refresh |-> "r2"]}

Saves == env_saved.n

\* secrets.py line 6: the module is imported by a process that has neither
\* variable, and load_dotenv(override=True) reads the file there is.
InitEnv ==
    /\ env_file \in EnvFiles
    /\ env_saved = NotSaved
    /\ is_aws_lambda = FALSE
    /\ environ = load_dotenv(env_file, [access |-> Unset, refresh |-> Unset])
    /\ persisted = dotenv_values(env_file)
    /\ stack = <<>> /\ ret = NoRet /\ headers = 0 /\ issued = 0
    /\ log = <<>> /\ n_update = 0 /\ max_retries_arg = 0
    /\ sends = <<>> /\ last_write = <<>>
    /\ SyncIdle /\ run = 1 /\ JobIdle /\ OneCall

EnvAt(at) == env_saved.at = at

\* Line 73 of write_secrets(new_access_token, new_refresh_token) in a process
\* that is not an AWS Lambda.
LocalSetAccess ==
    /\ EnvAt("idle")
    /\ Saves < MaxSaves
    /\ \E pair \in TokenPairs :
          /\ environ' = [environ EXCEPT !.access = pair.access]
          /\ env_saved' = [env_saved EXCEPT !.at = "line74", !.access = pair.access,
                                            !.refresh = pair.refresh, !.exc = "none"]
    /\ UNCHANGED <<stack, ret, persisted, is_aws_lambda, headers, issued, log, n_update,
                   max_retries_arg, env_file, svars, run, jvars, sends, last_write, other>>

\* Line 74
LocalSetRefresh ==
    /\ EnvAt("line74")
    /\ environ' = [environ EXCEPT !.refresh = env_saved.refresh]
    /\ env_saved' = [env_saved EXCEPT !.at = "read"]
    /\ UNCHANGED <<stack, ret, persisted, is_aws_lambda, headers, issued, log, n_update,
                   max_retries_arg, env_file, svars, run, jvars, sends, last_write, other>>

\* Lines 106-112: f.readlines(), or [] when there is no file, and the two
\* update_env_var calls.
LocalReadLines ==
    /\ EnvAt("read")
    /\ env_saved' = [env_saved EXCEPT
                         !.at = "open", !.before = env_file,
                         !.lines = update_env_var(
                                       update_env_var(env_file, ACCESS, env_saved.access),
                                       REFRESH_VAR, env_saved.refresh)]
    /\ UNCHANGED <<cvars, env_file, svars, run, jvars, sends, last_write, other>>

\* Lines 106-108: open(env_path, 'r') or f.readlines() raises and write_secrets
\* raises, os.environ set and the file as it was.
LocalReadLinesFails ==
    /\ EnvAt("read")
    /\ env_saved' = [env_saved EXCEPT !.at = "idle", !.n = @ + 1, !.exc = "OSError"]
    /\ UNCHANGED <<cvars, env_file, svars, run, jvars, sends, last_write, other>>

\* Line 113: open(env_path, 'w') empties the file.
LocalOpenWrite ==
    /\ EnvAt("open")
    /\ env_file' = <<>>
    /\ persisted' = dotenv_values(env_file')
    /\ env_saved' = [env_saved EXCEPT !.at = "writelines"]
    /\ UNCHANGED <<stack, ret, environ, is_aws_lambda, headers, issued, log, n_update,
                   max_retries_arg, svars, run, jvars, sends, last_write, other>>

\* Line 113: open(env_path, 'w') raises and write_secrets raises, the file as it
\* was.
LocalOpenWriteFails ==
    /\ EnvAt("open")
    /\ env_saved' = [env_saved EXCEPT !.at = "idle", !.n = @ + 1, !.lines = <<>>,
                                      !.exc = "OSError"]
    /\ UNCHANGED <<cvars, env_file, svars, run, jvars, sends, last_write, other>>

\* Line 114 and the end of the with block: f.writelines(lines) reaches the file;
\* the file is from now on what load_dotenv reads.
LocalWriteLines ==
    /\ EnvAt("writelines")
    /\ env_file' = writelines(env_saved.lines)
    /\ persisted' = dotenv_values(env_file')
    /\ env_saved' = [env_saved EXCEPT !.at = "idle", !.n = @ + 1, !.lines = <<>>]
    /\ UNCHANGED <<stack, ret, environ, is_aws_lambda, headers, issued, log, n_update,
                   max_retries_arg, svars, run, jvars, sends, last_write, other>>

\* Line 114 and the end of the with block: the write or the flush raises, some
\* beginning of the lines having reached the file, and write_secrets raises.
LocalWriteLinesFails ==
    /\ EnvAt("writelines")
    /\ env_file' \in FilePrefixes(writelines(env_saved.lines))
    /\ persisted' = dotenv_values(env_file')
    /\ env_saved' = [env_saved EXCEPT !.at = "idle", !.n = @ + 1, !.lines = <<>>,
                                      !.exc = "OSError"]
    /\ UNCHANGED <<stack, ret, environ, is_aws_lambda, headers, issued, log, n_update,
                   max_retries_arg, svars, run, jvars, sends, last_write, other>>

\* Line 54: load_secrets() of the same process, called from another thread at
\* any moment: load_dotenv reads the file.
LoadSecretsLocal ==
    /\ env_saved.load_todo = <<>>
    /\ dotenv_items(env_file) # <<>>
    /\ env_saved' = [env_saved EXCEPT !.load_todo = dotenv_items(env_file)]
    /\ UNCHANGED <<cvars, env_file, svars, run, jvars, sends, last_write, other>>

\* Line 54: load_dotenv assigns the next variable it read.
LoadDotenvAssign ==
    /\ env_saved.load_todo # <<>>
    /\ LET item == Head(env_saved.load_todo)
       IN environ' = [environ EXCEPT ![item.var] = item.value]
    /\ env_saved' = [env_saved EXCEPT !.load_todo = Tail(@)]
    /\ UNCHANGED <<stack, ret, persisted, is_aws_lambda, headers, issued, log, n_update,
                   max_retries_arg, env_file, svars, run, jvars, sends, last_write, other>>

NextEnv ==
    \/ LocalSetAccess
    \/ LocalSetRefresh
    \/ LocalReadLines
    \/ LocalReadLinesFails
    \/ LocalOpenWrite
    \/ LocalOpenWriteFails
    \/ LocalWriteLines
    \/ LocalWriteLinesFails
    \/ LoadSecretsLocal
    \/ LoadDotenvAssign

SpecEnv == InitEnv /\ [][NextEnv]_vars

(***************************************************************************)
(* Claims about kaya_api_post / update_tokens (SpecPost)                   *)
(***************************************************************************)
PostDone == stack = <<>>

\* Requests of the logical call itself, and requests to the refresh endpoint.
OwnSends == {i \in 1..Len(log) : log[i].url = GRAPHQL}
RefreshSends == {i \in 1..Len(log) : log[i].url = REFRESH}

\* Every send of the request was answered 401 and every refresh succeeded: its
\* request was answered 200 and the secrets backend did not fail.
AlwaysUnauthorized ==
    /\ \A i \in OwnSends : log[i].status = 401
    /\ \A i \in RefreshSends : log[i].status = 200
    /\ ret.exc \notin {"ClientError", "KeyError", "OSError", "TypeError"}

\* C1: when every send of the request is answered 401 and every refresh succeeds,
\* update_tokens is invoked at most max_retries times and the call ends by raising
\* the exhausted-retries exception.
C1_AuthRetryBound ==
    AlwaysUnauthorized =>
        /\ n_update <= max_retries_arg
        /\ PostDone => ret = Raise("Exception")

\* C2: update_tokens is never entered while another update_tokens is active, and
\* a 401 from the refresh endpoint is followed by no further refresh request.
C2_RefreshNotRecursive ==
    /\ Depth <= 1
    /\ \A i \in RefreshSends : log[i].status = 401 => Cardinality(RefreshSends) = 1

\* C3: with max_retries >= 1, a 401 followed by a successful refresh and a
\* successful resend returns the response after exactly one update_tokens and
\* exactly two sends of the request, the second one carrying the token the
\* refresh endpoint issued.
OneRefreshThenOk ==
    /\ max_retries_arg >= 1
    /\ Len(log) >= 3
    /\ log[1].url = GRAPHQL /\ log[1].status = 401
    /\ log[2].url = REFRESH /\ log[2].status = 200
    /\ log[3].url = GRAPHQL /\ log[3].status = 200

C3_RefreshOnceThenReturn ==
    OneRefreshThenOk =>
        /\ PostDone
        /\ ret.kind = "return"
        /\ n_update = 1
        /\ Len(log) = 3
        /\ Cardinality(OwnSends) = 2
        /\ log[3].auth = issued
        /\ log[3].auth = environ.access
        /\ log[3].auth # log[1].auth

C3_Witness == OneRefreshThenOk /\ PostDone

\* The exception a failed send raises: requests' for status 0, which stands for
\* a request that got no response, HTTPError of raise_for_status otherwise.
ExcOf(status) == IF status = 0 THEN "ConnectionError" ELSE "HTTPError"

\* The kaya_api_post activation stack[k] has had its latest request answered
\* with a non-auth HTTP error or no response at all.
FailedSendBehind(k) ==
    /\ stack[k].fn = "kaya_api_post"
    /\ stack[k].idx > 0
    /\ log[stack[k].idx].status \in {0, 500}

\* No kaya_api_post activation is left on the stack with a failed send behind
\* it: none can send again or call update_tokens after one. And once a send of
\* the call's own request has failed, it is the last request of the log and
\* the call has ended with that error.
NoActivationAfterFailure ==
    /\ \A k \in 1..Len(stack) : ~FailedSendBehind(k)
    /\ \A j \in OwnSends :
          log[j].status \in {0, 500} =>
              /\ j = Len(log)
              /\ PostDone
              /\ ret = Raise(ExcOf(log[j].status))

\* C4: a send answered with a non-auth HTTP error or failing at transport level
\* is never retried: the step that answers it ends that kaya_api_post activation
\* with the error raised to its caller, with no update_tokens invoked and
\* os.environ, the backend and the header as they were; in no later state is
\* that activation on the stack; and after a failed send of the call's own
\* request nothing more is sent, refreshed or written: the call has ended with
\* the error.
C4_FailureNotRetried ==
    /\ []NoActivationAfterFailure
    /\ [][\A status \in {0, 500} :
             (Waiting /\ log' = Answered(status)) =>
                 /\ stack' = Pop
                 /\ ret' = Raise(ExcOf(status))
                 /\ n_update' = n_update
                 /\ environ' = environ
                 /\ persisted' = persisted
                 /\ env_file' = env_file
                 /\ headers' = headers]_vars
    /\ [][(\E j \in OwnSends : log[j].status \in {0, 500}) =>
             UNCHANGED <<log, n_update, environ, persisted, env_file, headers>>]_vars

\* A resend after a refresh is answered 500 and the call has raised.
C4_Witness ==
    /\ PostDone
    /\ Len(log) > 0
    /\ log[Len(log)].status = 500
    /\ log[Len(log)].url = GRAPHQL
    /\ log[Len(log)].attempt = 1
    /\ n_update = 1
    /\ ret = Raise("HTTPError")

\* C17 as stated: once the refresh request made for a 401 of the logical call has
\* failed with a non-auth HTTP error or a transport error, the call sends nothing
\* more: no further refresh request, no resend.
RefreshFailedAt(j) ==
    /\ log[j].url = REFRESH
    /\ log[j].level = 1
    /\ log[j].status \in {0, 500}

C17_RefreshFailureSurfaces ==
    \A j \in 1..Len(log) : RefreshFailedAt(j) => j = Len(log)

\* C29: the logical call sends its own request at most max_retries + 1 times, once
\* per value of `attempt`, whatever the answers and the fate of the refreshes.
C29_OwnSendsBounded ==
    /\ Cardinality(OwnSends) <= max_retries_arg + 1
    /\ \A i, j \in OwnSends : i < j => log[i].attempt < log[j].attempt
    /\ \A i \in OwnSends : log[i].attempt <= max_retries_arg

\* The call ended after max_retries + 1 = 3 sends, one refresh having failed on
\* the way.
C29_Witness ==
    /\ PostDone
    /\ max_retries_arg = 2
    /\ Cardinality(OwnSends) = 3
    /\ \E i \in RefreshSends : log[i].status = 500

(***************************************************************************)
(* Claims about two interleaved calls of kaya_api_post (SpecRace)          *)
(***************************************************************************)
\* The suspended call is inside update_tokens: it has read the refresh token
\* (line 51) and its refresh request has not come back to line 58.
OtherInUpdateTokens ==
    \E i \in 1..Len(other.stack) : other.stack[i].fn = "update_tokens"

\* Requests answered 401, of either call, to either endpoint.
Refused == {i \in 1..Len(log) : log[i].status = 401}

\* C23: kaya_api_post goes through read-token, send, detect-401, refresh and
\* write-token with no mutual exclusion over the shared credential pair.  Every
\* request answered 401 starts an update_tokens of its own, whatever the other
\* call is doing: there are at least as many update_tokens invocations as
\* refused requests, and a request of one call refused while the other call is
\* inside update_tokens enters update_tokens as well.  And the refresh request an
\* update_tokens prepares carries the refresh token os.environ holds when line
\* 51 runs, whatever the other call has done or will do to the backend.
C23_RefreshNotExclusive ==
    /\ [](n_update >= Cardinality(Refused))
    /\ [][/\ (/\ Waiting
              /\ Top.url = GRAPHQL
              /\ OtherInUpdateTokens
              /\ other' = other
              /\ log' = Answered(401))
             => (/\ n_update' = n_update + 1
                 /\ Len(stack') = Len(stack) + 1
                 /\ Top'.fn = "update_tokens"
                 /\ Top'.at = "load")
          /\ (UpdateTokensAt("json") /\ other' = other /\ stack' # stack)
             => (/\ Top'.fn = "kaya_api_post"
                 /\ Top'.url = REFRESH
                 /\ Top'.json = <<"refresh_token", environ.refresh>>)]_vars

\* The race: both calls had a request refused for the same expired access token
\* and both entered update_tokens. The refresh request of one was answered 200
\* with a rotated refresh token, and its update_tokens has stored the new pair
\* and returned it (line 67): os.environ and the backend hold the new refresh
\* token. The refresh request of the other has just left with the same body as
\* the first, the refresh token that was rotated away.
C23_Witness ==
    \E a, b \in OwnSends : \E i \in RefreshSends :
        LET j == Len(log)
        IN /\ log[a].call = 1 /\ log[b].call = 2
           /\ log[a].status = 401 /\ log[b].status = 401
           /\ log[a].auth = log[b].auth
           /\ a < i /\ b < i /\ i < j
           /\ log[j].url = REFRESH
           /\ log[j].status = InFlight
           /\ log[j].call = Running
           /\ log[i].call # log[j].call
           /\ log[i].status = 200
           /\ log[j].json = log[i].json
           /\ n_update = 2
           /\ other.ret.kind = "return"
           /\ other.ret.refresh_token # log[i].json[2]
           /\ other.ret.refresh_token = issued
           /\ environ.refresh = other.ret.refresh_token
           /\ persisted.refresh = other.ret.refresh_token

(***************************************************************************)
(* Claims about update_gym_data (Spec)                                     *)
(***************************************************************************)
Count(k, rows) == Cardinality({i \in 1..Len(rows) : rows[i] = k})

\* The i-th page fetched successfully, as the API returned it.
FetchedPage(i) == get_data_for_gym(fetched[i].offset)

\* Every row handed to write_dataframe so far, in order.
AllFlushed == concat(flushes)

UpstreamKeys == UNION {Keys(pages[i]) : i \in 1..Len(pages)}

PageSizes == [i \in 1..Len(pages) |-> Len(pages[i])]
FlushSizes == [i \in 1..Len(flushes) |-> Len(flushes[i])]
FetchedOffsets == [i \in 1..Len(fetched) |-> fetched[i].offset]

LoopOver == pc \in {"final", "done", "raised"}

\* The page after the one at the current offset holds data.
MoreUpstream == get_data_for_gym(NextOffset(offset)) # <<>>

\* C5: in incremental mode a fetched non-empty page whose send_ids are all in
\* seen_send_ids ends the loop, adds nothing to the pending frames and is followed
\* by no fetch; when the table already holds every send_id of the first page,
\* the call makes exactly one fetch and writes nothing.
C5_AllSeenPage ==
    /\ pc = "filter"
    /\ mode = "incremental"
    /\ df # <<>>
    /\ Keys(df) \subseteq seen_send_ids

C5_FirstPageKnown ==
    /\ mode = "incremental"
    /\ get_data_for_gym(start_offset) # <<>>
    /\ Keys(get_data_for_gym(start_offset)) \subseteq store0

C5_IncrementalFrontier ==
    /\ []((C5_FirstPageKnown /\ pc = "done") =>
            /\ Len(fetched) = 1
            /\ flushes = <<>>
            /\ total_written = 0
            /\ store = store0)
    /\ [][/\ C5_AllSeenPage => (pc' = "final" /\ all_data' = all_data)
          /\ LoopOver => (fetched' = fetched /\ LoopOver')]_vars

\* An all-seen page was dropped although the upstream holds more after it.
C5_Witness ==
    /\ mode = "incremental"
    /\ pc = "done"
    /\ fetched # <<>>
    /\ fetched[Len(fetched)].n > 0
    /\ Keys(FetchedPage(Len(fetched))) \subseteq seen_send_ids
    /\ df = <<>>
    /\ MoreUpstream

\* C6: in either mode only the last fetched page can hold fewer than 15 entries,
\* and after such a page the call never returns to fetching.
C6_ShortPageEndsLoop ==
    \A i \in 1..Len(fetched) :
        fetched[i].n < PageSize => (i = Len(fetched) /\ pc # "fetch")

C6_Witness ==
    /\ pc = "done"
    /\ fetched # <<>>
    /\ fetched[Len(fetched)].n \in 1..(PageSize - 1)
    /\ MoreUpstream

\* k occurs in two different fetched pages.
CrossPageDup(k) ==
    \E i, j \in 1..Len(fetched) :
        i < j /\ k \in Keys(FetchedPage(i)) /\ k \in Keys(FetchedPage(j))

\* No fetched page lists k more than once.
NoPageRepeats(k) == \A i \in 1..Len(fetched) : Count(k, FetchedPage(i)) <= 1

\* C7 as stated: in any mode, a send_id occurring in two different fetched pages
\* is handed to write_dataframe at most once.
C7_DedupAnyMode ==
    \A k \in UpstreamKeys : CrossPageDup(k) => Count(k, AllFlushed) <= 1

\* C7 amended: in incremental mode, a send_id that occurs in two different fetched
\* pages, none of which lists it twice, is handed to write_dataframe at most once,
\* and total_written counts exactly the rows handed over.
C7_DedupIncremental ==
    /\ total_written = Len(AllFlushed)
    /\ mode = "incremental" =>
          \A k \in UpstreamKeys :
              (CrossPageDup(k) /\ NoPageRepeats(k)) => Count(k, AllFlushed) <= 1

C7_Witness ==
    /\ mode = "incremental"
    /\ pc = "done"
    /\ \E k \in UpstreamKeys :
          CrossPageDup(k) /\ NoPageRepeats(k) /\ Count(k, AllFlushed) = 1

\* C8: outside the flush decision itself fewer than batch_size rows are pending,
\* so a flush in the loop happens at the first iteration reaching batch_size;
\* every flush in the loop holds at least batch_size rows; the final flush
\* happens at most once, after all others, exactly when frames remain pending.
C8_FlushThreshold ==
    /\ pc \in {"fetch", "filter", "short", "final"} =>
          PendingCount(all_data) < batch_size
    /\ \A i \in 1..Len(flushes) :
          /\ flush_at[i] = "loop" => Len(flushes[i]) >= batch_size
          /\ flush_at[i] = "final" => (i = Len(flushes) /\ pc = "done")
    /\ pc = "done" =>
          /\ all_data # <<>> <=>
                (flushes # <<>> /\ flush_at[Len(flushes)] = "final")
          /\ all_data # <<>> => flushes[Len(flushes)] = concat(all_data)

\* A flush in the loop gathered more than one page, and a remainder was flushed.
C8_Witness ==
    /\ pc = "done"
    /\ Len(flushes) >= 2
    /\ flush_at[Len(flushes)] = "final"
    /\ \E i \in 1..Len(flushes) :
          flush_at[i] = "loop" /\ Len(flushes[i]) > PageSize

\* C9: update_gym_data returns None exactly when nothing was written, and the
\* last flushed batch otherwise.
C9_ReturnsLastFlushed ==
    pc = "done" =>
        /\ result = None <=> total_written = 0
        /\ flushes # <<>> => result = DataFrame(flushes[Len(flushes)])

\* C10 as stated: full mode, batch_size 2, pages of 2, 2 and 1 entries: three
\* fetches, 5 rows written in flushes of 2, 2 and 1.
C10_Pages_2_2_1 ==
    (/\ mode = "full" /\ batch_size = 2 /\ start_offset = 0
     /\ PageSizes = <<2, 2, 1>>
     /\ pc = "done") =>
        /\ Len(fetched) = 3
        /\ total_written = 5
        /\ FlushSizes = <<2, 2, 1>>

C10_FullPagesThenShort ==
    /\ mode = "full" /\ batch_size = 2 /\ start_offset = 0
    /\ PageSizes = <<PageSize, PageSize, 1>>
    /\ pc = "done"

\* C10 amended: full mode, batch_size 2, pages of 15, 15 and 1 entries: three
\* fetches, 31 rows written: 15 after page 1, 15 after page 2, 1 at the end.
C10_Pages_15_15_1 ==
    C10_FullPagesThenShort =>
        /\ FetchedOffsets = <<0, 15, 30>>
        /\ total_written = 31
        /\ FlushSizes = <<15, 15, 1>>
        /\ flush_at = <<"loop", "loop", "final">>

C10_Witness == C10_FullPagesThenShort /\ result.kind = "DataFrame"

\* C11 as stated: a fetch that failed with the exhausted-retries exception of
\* kaya_api_post is not retried: update_gym_data raises.
C11_AuthExhaustionPropagates == last_exc = "Exception" => pc = "raised"

\* C16 as stated: in incremental mode the loop ends after a page the API returned
\* full only when the whole page was dropped.
C16_FullPageContinues ==
    (/\ mode = "incremental"
     /\ pc = "final"
     /\ fetched # <<>>
     /\ fetched[Len(fetched)].n = PageSize) => df = <<>>

\* C19: a step at the fetch position that records no fetched page (a failed fetch)
\* stays at the fetch position and changes neither offset, pending frames,
\* seen_send_ids, total_written nor the table; the offset changes only in the
\* step after the flush decision of a processed page, by exactly 15.
C19_RetryLeavesStateUnchanged ==
    [][/\ (pc = "fetch" /\ fetched' = fetched) =>
            /\ pc' = "fetch"
            /\ offset' = offset
            /\ all_data' = all_data
            /\ seen_send_ids' = seen_send_ids
            /\ total_written' = total_written
            /\ store' = store
            /\ flushes' = flushes
       /\ offset' # offset =>
            /\ pc = "short"
            /\ pc' = "fetch"
            /\ Len(fetched) > 0
            /\ fetched[Len(fetched)].offset = offset
            /\ offset' = offset + PageSize]_vars

\* A fetch failed at a later offset, with rows pending.
C19_Witness ==
    /\ pc = "fetch"
    /\ last_exc # "none"
    /\ offset = start_offset + PageSize
    /\ all_data # <<>>

(***************************************************************************)
(* Claims about write_dataframe (SpecStore)                                *)
(***************************************************************************)
\* C14: upserting any batch a second time changes nothing; the table holds at
\* most one row per send_id; every send_id ever upserted has a row, whose other
\* columns are those of the latest record upserted for it, a null is_private
\* being stored as 0.
C14_UpsertIdempotentUnique ==
    /\ \A B \in Batches :
          upsert_dataframe(upsert_dataframe(sends, B), B) = upsert_dataframe(sends, B)
    /\ \A i, j \in 1..Len(sends) : sends[i].send_id = sends[j].send_id => i = j
    /\ \A i \in 1..Len(sends) :
          LET latest == last_write.latest[sends[i].send_id]
          IN /\ sends[i].val = latest.val
             /\ sends[i].is_private = (IF latest.is_private = NullFlag THEN 0
                                                                       ELSE latest.is_private)
    /\ \A k \in 1..MaxKey : last_write.latest[k].written <=> HasKey(sends, k)

\* Three calls have left one row: its send_id was upserted each time, last with
\* a null in both columns, and the row holds the null and the flag 0.
C14_Witness ==
    /\ last_write.calls = 3
    /\ Len(sends) = 1
    /\ sends[1].val = "NULL"
    /\ sends[1].is_private = 0
    /\ last_write.latest[sends[1].send_id].is_private = NullFlag

(***************************************************************************)
(* Claims about update_all_gyms (SpecJob)                                  *)
(***************************************************************************)
\* C13: the gyms are synced one after the other in configuration order; results
\* holds exactly one entry per gym whose sync finished, "Success" when it
\* returned and "Error: <message>" when it raised; after either the loop goes
\* on, and the job returns only when every gym of the configuration has an entry.
C13_EveryGymRunsAndIsReported ==
    /\ [](/\ DOMAIN results = (IF jpc = "sync" THEN 1..(gym_i - 1) ELSE 1..gym_i)
          /\ jpc = "sync" => pages = gyms[gym_i].pages
          /\ jpc = "returned" => DOMAIN results = 1..Len(gyms))
    /\ [][/\ gym_i' # gym_i => gym_i' = gym_i + 1 /\ jpc' = "sync" /\ pc' = "start"
          /\ results' # results =>
                /\ pc \in {"done", "raised"}
                /\ jpc' = "loop"
                /\ results' = results @@
                      (gym_i :> IF pc = "done" THEN Str("Success", "")
                                               ELSE Str("Error: ", StoreError))]_vars

\* The job returned after three gyms, the first of which raised and the others
\* returned.
C13_Witness ==
    /\ jpc = "returned"
    /\ Len(gyms) = 3
    /\ results[1] = Str("Error: ", StoreError)
    /\ results[2] = Str("Success", "")
    /\ results[3] = Str("Success", "")

Flushed == UNION {Keys(flushes[i]) : i \in 1..Len(flushes)}

\* C15: a write_dataframe failure, in the loop or in the final flush, ends the
\* sync call: the failed batch is not written, what was flushed before stays in
\* the table, nothing is fetched or upserted afterwards, and the job records an
\* error for that gym only, leaving the other entries alone.
C15_StoreFailureAbortsOneGym ==
    /\ [](pc = "raised" => store = store0 \cup Flushed)
    /\ [][/\ (pc' = "raised" /\ pc \in {"batch", "final"}) =>
                /\ all_data # <<>>
                /\ store' = store /\ flushes' = flushes /\ fetched' = fetched
          /\ pc = "raised" =>
                /\ store' = store /\ flushes' = flushes /\ fetched' = fetched
                /\ total_written' = total_written
                /\ results' = results @@ (gym_i :> Str("Error: ", StoreError))
                /\ gym_i \notin DOMAIN results]_vars

\* The final flush of the second gym failed after a flush in the loop had
\* succeeded; the first gym is recorded as a success.
C15_Witness ==
    /\ pc = "raised"
    /\ flushes # <<>>
    /\ flush_at[Len(flush_at)] = "loop"
    /\ gym_i = 2
    /\ results[1] = Str("Success", "")

(***************************************************************************)
(* Claims about interrupted and incremental runs (SpecResume)              *)
(***************************************************************************)
RerunDone == run = 2 /\ pc = "done"

\* C12 as stated: when the incremental re-run after an interruption has
\* completed, the table holds every upstream record.
C12_RerunCompletesStore == RerunDone => UpstreamKeys \subseteq store

\* C12, amended: the re-run from offset 0 fetches the page at offset 0 only,
\* drops it entirely, upserts nothing and returns None, so that the table holds
\* what it held at the interruption.
C12_RerunStopsAtFirstPage ==
    RerunDone =>
        /\ fetched = <<[offset |-> 0, n |-> Len(pages[1])]>>
        /\ Keys(pages[1]) \subseteq store0
        /\ df = <<>>
        /\ flushes = <<>>
        /\ total_written = 0
        /\ store = store0
        /\ result = None

\* The re-run has completed and upstream records are missing from the table.
C12_Witness == RerunDone /\ ~(UpstreamKeys \subseteq store) /\ Len(pages) = 3

\* C18: an incremental run from offset 0 over a table holding a recency suffix
\* of the upstream, once it has returned, has stored every upstream record, and
\* every page it fetched before its last held a record not stored at the start.
C18_SuffixStoreCatchesUp ==
    (run = 1 /\ mode = "incremental" /\ pc = "done") =>
        /\ UpstreamKeys \subseteq store
        /\ \A i \in 1..(Len(fetched) - 1) :
              ~(Keys(FetchedPage(i)) \subseteq store0)

\* The stored suffix starts inside the second page: the first page is all new,
\* two records of the second survive, and the run returns with everything stored.
C18_Witness ==
    /\ run = 1 /\ mode = "incremental" /\ pc = "done"
    /\ Len(pages) = 3
    /\ store0 = (PageSize + 3)..MaxRecords
    /\ Len(fetched) = 2
    /\ UpstreamKeys \subseteq store

(***************************************************************************)
(* Further claims about update_gym_data (Spec)                             *)
(***************************************************************************)
\* C22 as stated: the pending rows never exceed batch_size.
C22_PendingWithinBatch == PendingCount(all_data) <= batch_size

\* C22, amended: the pending rows stay below batch_size except between the
\* append of a page and the flush decision that follows it, where they are at
\* most batch_size - 1 plus the rows of the page just appended.
C22_PendingWithinBatchPlusPage ==
    /\ PendingCount(all_data) <= batch_size - 1 + PageSize
    /\ pc = "batch" => PendingCount(all_data) <= batch_size - 1 + Len(df)
    /\ pc \notin {"batch", "raised"} => PendingCount(all_data) < batch_size

\* A page of 15 rows was appended to 15 pending rows under a batch size of 16.
C22_Witness ==
    /\ pc = "batch"
    /\ batch_size = PageSize + 1
    /\ PendingCount(all_data) = batch_size - 1 + PageSize

\* C25: in incremental mode no flush carries a send_id the table held when
\* update_gym_data was called.
C25_ExistingNeverUpserted ==
    mode = "incremental" =>
        \A i \in 1..Len(flushes) : Keys(flushes[i]) \cap store0 = {}

\* An incremental run flushed the new rows of a page part of which was stored.
C25_Witness ==
    /\ mode = "incremental"
    /\ store0 = {1, 2}
    /\ fetched # <<>>
    /\ Keys(FetchedPage(1)) = 1..PageSize
    /\ flushes # <<>>
    /\ Keys(flushes[1]) = 3..PageSize

\* The rows of the fetched pages from the i-th on that pass the filter, in fetch
\* order, `seen` being the send_ids known before the i-th page.
RECURSIVE Survivors(_, _)
Survivors(i, seen) ==
    IF i > Len(fetched)
      THEN <<>>
      ELSE LET page == FetchedPage(i)
               kept == IF mode = "incremental"
                         THEN SelectSeq(page, LAMBDA k : k \notin seen)
                         ELSE page
           IN kept \o Survivors(i + 1, seen \cup Keys(kept))

\* C26: when update_gym_data has returned, the rows handed to write_dataframe,
\* all flushes together, are exactly the surviving rows of the fetched pages, each
\* once and in fetch order, and total_written is their number.
C26_SurvivorsFlushedOnce ==
    pc = "done" =>
        /\ AllFlushed = Survivors(1, IF mode = "incremental" THEN store0 ELSE {})
        /\ total_written = Len(AllFlushed)

\* A run returned after a flush in the loop and a final flush, three pages
\* fetched.
C26_Witness ==
    /\ pc = "done"
    /\ flush_at = <<"loop", "final">>
    /\ Len(fetched) = 3
    /\ total_written > PageSize

(***************************************************************************)
(* Termination of update_gym_data (SpecLive)                               *)
(***************************************************************************)
Terminated == pc \in {"done", "raised"}

\* Steps left in the current iteration of the loop.
PcRank ==
    CASE pc = "start" -> 6
      [] pc = "fetch" -> 5
      [] pc = "filter" -> 4
      [] pc = "batch" -> 3
      [] pc = "short" -> 2
      [] pc = "final" -> 1
      [] OTHER -> 0

\* Pages not yet passed, the empty page that follows the last one included.
PagesAhead ==
    IF offset \div PageSize > Len(pages) THEN 0
                                         ELSE Len(pages) + 1 - offset \div PageSize

Variant == 7 * PagesAhead + PcRank

\* C27: every step other than a failed fetch brings the call closer to its end,
\* and a failed fetch changes nothing but the exception logged; hence, if every
\* fetch position is eventually left, the call eventually returns or raises, and
\* a call that never ends stays at one fetch forever.
C27_TerminatesUnlessFetchFailsForever ==
    /\ [][IF pc = "fetch" /\ pc' = "fetch"
            THEN offset' = offset /\ fetched' = fetched
            ELSE Variant' < Variant]_vars
    /\ ((pc = "fetch" ~> pc # "fetch") => <>Terminated)

\* The unconditional form, which a fetch failing forever refutes.
EventuallyTerminated == <>Terminated

\* A run from a later offset returned after fetches had failed and succeeded.
C27_Witness ==
    /\ pc = "done"
    /\ start_offset = PageSize
    /\ Len(fetched) = 2
    /\ fetched[2].n = 1

(***************************************************************************)
(* Claims about a second run (SpecAgain)                                   *)
(***************************************************************************)
\* The second call fetched one page, flushed nothing and returned None.
SecondRunIdle ==
    /\ Len(fetched) = 1
    /\ fetched[1].offset = 0
    /\ flushes = <<>>
    /\ total_written = 0
    /\ store = store0
    /\ result = None

\* C28 as stated: an incremental run from offset 0 right after any run that
\* returned ends by returning, having fetched one page, upserted nothing and
\* returned None.
C28_SecondRunIdle ==
    (run = 2 /\ pc \in {"done", "raised"}) => (pc = "done" /\ SecondRunIdle)

(***************************************************************************)
(* Claims about missing tokens (SpecLoad)                                  *)
(***************************************************************************)
\* C24 as stated: no request is sent with a missing access token.
C24_NoRequestWithoutToken == \A i \in 1..Len(log) : log[i].auth # NoToken

(***************************************************************************)
(* Claims about the .env file (SpecEnv)                                    *)
(***************************************************************************)
TextsOf(lines) == [i \in 1..Len(lines) |-> lines[i].text]

\* The file the claim describes: every line of `var` replaced in place, the
\* other lines as they were, a variable without a line added at the end.
Replaced(texts, var, value) ==
    LET hit(t) == LET u == strip(t) IN Len(u) >= 2 /\ u[1] = var /\ u[2] = "="
        mapped == [i \in 1..Len(texts) |->
                      IF hit(texts[i]) THEN <<var, "=", value>> ELSE texts[i]]
    IN IF \E i \in 1..Len(texts) : hit(texts[i])
         THEN mapped
         ELSE Append(mapped, <<var, "=", value>>)

\* C20 as stated, for the local backend: once write_secrets(pair), the save that
\* ends a successful update_tokens, has returned, os.environ and the .env file
\* both give the pair.
C20_SavedPairEverywhere ==
    (EnvAt("idle") /\ Saves > 0 /\ env_saved.exc = "none") =>
        LET pair == [access |-> env_saved.access, refresh |-> env_saved.refresh]
        IN /\ environ = pair
           /\ persisted = pair

\* C21 as stated: after a save the file is the file before it with the lines of
\* the two tokens replaced in place, missing tokens appended and every other line
\* as it was, and saving the same pair again leaves the file as it is.
C21_SaveRewritesInPlace ==
    (EnvAt("idle") /\ Saves > 0 /\ env_saved.exc = "none") =>
        /\ TextsOf(env_file) =
              Replaced(Replaced(TextsOf(env_saved.before), ACCESS, env_saved.access),
                       REFRESH_VAR, env_saved.refresh)
        /\ write_env(env_file, env_saved.access, env_saved.refresh) = env_file

====
